---- MODULE Spec2Model ----
(***************************************************************************)
(* Model of the conversational agent orchestrator of minusxai/minusx:      *)
(* the append-only conversation log (tasks/orchestrator.py), the log       *)
(* utilities of the HTTP layer (tasks/conversation.py), the chat endpoints *)
(* (main.py) and the agents that drive them (tasks/test_agents.py,         *)
(* tasks/agents/analyst).                                                  *)
(*                                                                         *)
(* Python None is modelled by None (ids) and NoResult (results).  Ids made *)
(* by generate_unique_tool_call_id are drawn from a counter: each call     *)
(* yields an id that has never been used.  asyncio is modelled by its      *)
(* FIFO ready queue (callbacks scheduled with call_soon) and by I/O        *)
(* completions that arrive in any order.                                   *)
(***************************************************************************)
EXTENDS Integers, Sequences, FiniteSets, TLC

\* ------------------------------------------------------------------ bounds
MaxReq == 3          \* requests a client sends in one behaviour
MaxTasks == 5        \* task entries a log may hold when a new turn starts
MaxCalls == 2        \* tool calls the LLM may make in one conversation
MaxLen == 4          \* entries of a log handed to CompressedConversationLog
MaxBatches == 2      \* child batches of the task whose thread is translated
MaxIter == 36        \* answers the LLM may give to one analyst in a request
MaxDeltas == 4       \* tool call deltas the provider streams in one answer

\* --------------------------------------------------------------- constants
None == 0                          \* Python None where an id is expected
NoResult == "None"                 \* Python None where a result is expected
WrongId == 99                      \* a tool_call_id that names no task
Interrupted == "<Interrupted />"
InvalidJson == "Invalid JSON in arguments"
MissingParams == "<ERROR>Required parameters missing</ERROR>"
AllToolsCompleted == "All tools completed"
MAX_STEPS_LOWER_LEVEL == 35        \* tasks/llm/config.py
MaximumIterations == "Maximum iterations (35) reached. Please try a simpler query."
NavigateNothing == "Must provide at least one of: file_id, path, or newFileType"
InvalidFileId == "Invalid file_id. If you do not want to provide it, don't pass it at all."
UpdateNothing == "Must provide at least one of: name, description, or path"

\* ------------------------------------------------------------ log entries
Task(parent_unique_id, previous_unique_id, run_id, agent, args, unique_id) ==
    [type_ |-> "task", parent_unique_id |-> parent_unique_id,
     previous_unique_id |-> previous_unique_id, run_id |-> run_id,
     agent |-> agent, args |-> args, unique_id |-> unique_id]

TaskResult(task_unique_id, result) ==
    [type_ |-> "task_result", task_unique_id |-> task_unique_id, result |-> result]

TaskDebugLog(task_unique_id) ==
    [type_ |-> "task_debug", task_unique_id |-> task_unique_id]

\* ------------------------------------------------- Python dict, as a list
\* A dict of Task entries keyed by unique_id, in insertion order.
DictHas(d, k) == \E i \in 1..Len(d) : d[i].unique_id = k

DictSet(d, e) ==
    IF DictHas(d, e.unique_id)
    THEN [i \in 1..Len(d) |-> IF d[i].unique_id = e.unique_id THEN e ELSE d[i]]
    ELSE Append(d, e)

DictPop(d, k) == SelectSeq(d, LAMBDA e : e.unique_id # k)

DictGet(d, k) == d[CHOOSE i \in 1..Len(d) : d[i].unique_id = k]

Ids(d) == {d[i].unique_id : i \in 1..Len(d)}

\* ------------------------------------------------- tasks/conversation.py
\* Variant: the first root task entry instead of the last.
get_first_root(log) ==
    LET roots == {i \in 1..Len(log) :
                    log[i].type_ = "task" /\ log[i].parent_unique_id = None}
    IN IF roots = {} THEN 0 ELSE CHOOSE i \in roots : \A j \in roots : i <= j

\* Index of the last root task entry of the log, 0 when there is none.
get_latest_root(log) ==
    LET roots == {i \in 1..Len(log) :
                    log[i].type_ = "task" /\ log[i].parent_unique_id = None}
    IN IF roots = {} THEN 0 ELSE CHOOSE i \in roots : \A j \in roots : j <= i

get_pending_leaf_tasks(log) ==
    LET r == get_latest_root(log)
    IN IF r = 0 THEN <<>>
       ELSE LET scan[i \in (r - 1)..Len(log)] ==
                    IF i = r - 1 THEN <<>>
                    ELSE LET d == scan[i - 1]
                             e == log[i]
                         IN CASE e.type_ = "task" -> DictSet(d, e)
                              [] e.type_ = "task_result" -> DictPop(d, e.task_unique_id)
                              [] OTHER -> d
                d0 == scan[Len(log)]
                prune[j \in 0..Len(d0)] ==
                    IF j = 0 THEN d0
                    ELSE LET d == prune[j - 1]
                         IN IF DictHas(d, d0[j].parent_unique_id)
                            THEN DictPop(d, d0[j].parent_unique_id)
                            ELSE d
            IN prune[Len(d0)]

\* Children of a pending leaf grouped by run_id, in first-seen order.
ChildTasksBatch(task, task_map, result_map) ==
    LET children == SelectSeq(task_map, LAMBDA t : t.parent_unique_id = task.unique_id)
        runs[i \in 0..Len(children)] ==
            IF i = 0 THEN <<>>
            ELSE IF \E j \in 1..Len(runs[i - 1]) : runs[i - 1][j] = children[i].run_id
                 THEN runs[i - 1]
                 ELSE Append(runs[i - 1], children[i].run_id)
        order == runs[Len(children)]
        item(c) == [tool_call_id |-> c.unique_id, agent |-> c.agent, args |-> c.args,
                    result |-> result_map[c.unique_id]]
        group(rid) == LET g == SelectSeq(children, LAMBDA c : c.run_id = rid)
                      IN [k \in 1..Len(g) |-> item(g[k])]
    IN [k \in 1..Len(order) |-> group(order[k])]

\* task_map = <<>> stands for the call without maps.
pending_leaf_task_to_tool_call(task, task_map, result_map) ==
    [id |-> task.unique_id, name |-> task.agent, arguments |-> task.args,
     child_tasks_batch |->
        IF task_map # <<>> /\ DOMAIN result_map # {}
        THEN ChildTasksBatch(task, task_map, result_map)
        ELSE <<>>]

\* completed_map: the dict built from the list, a later entry winning.
CompletedMap(completed_tool_calls) ==
    [k \in {completed_tool_calls[i].tool_call_id : i \in 1..Len(completed_tool_calls)} |->
        LET last == CHOOSE i \in 1..Len(completed_tool_calls) :
                        /\ completed_tool_calls[i].tool_call_id = k
                        /\ \A j \in 1..Len(completed_tool_calls) :
                              completed_tool_calls[j].tool_call_id = k => j <= i
        IN completed_tool_calls[last].content]

\* Variant: a pending leaf without completion is interrupted whatever the flag.
update_log_interrupting(log, completed_tool_calls, interrupt_pending) ==
    LET pending_leaf_tasks == get_pending_leaf_tasks(log)
        completed_map == CompletedMap(completed_tool_calls)
        loop[i \in 0..Len(pending_leaf_tasks)] ==
            IF i = 0 THEN [log |-> log, remaining |-> <<>>]
            ELSE LET acc == loop[i - 1]
                     task == pending_leaf_tasks[i]
                 IN IF task.unique_id \in DOMAIN completed_map
                    THEN [acc EXCEPT !.log = Append(@,
                              TaskResult(task.unique_id, completed_map[task.unique_id]))]
                    ELSE IF TRUE
                    THEN [acc EXCEPT !.log = Append(@,
                              TaskResult(task.unique_id, Interrupted))]
                    ELSE [acc EXCEPT !.remaining = Append(@,
                              pending_leaf_task_to_tool_call(task, <<>>, <<>>))]
    IN loop[Len(pending_leaf_tasks)]

\* Variant: a pending leaf without completion is kept whatever the flag.
update_log_keeping(log, completed_tool_calls, interrupt_pending) ==
    LET pending_leaf_tasks == get_pending_leaf_tasks(log)
        completed_map == CompletedMap(completed_tool_calls)
        loop[i \in 0..Len(pending_leaf_tasks)] ==
            IF i = 0 THEN [log |-> log, remaining |-> <<>>]
            ELSE LET acc == loop[i - 1]
                     task == pending_leaf_tasks[i]
                 IN IF task.unique_id \in DOMAIN completed_map
                    THEN [acc EXCEPT !.log = Append(@,
                              TaskResult(task.unique_id, completed_map[task.unique_id]))]
                    ELSE IF FALSE
                    THEN [acc EXCEPT !.log = Append(@,
                              TaskResult(task.unique_id, Interrupted))]
                    ELSE [acc EXCEPT !.remaining = Append(@,
                              pending_leaf_task_to_tool_call(task, <<>>, <<>>))]
    IN loop[Len(pending_leaf_tasks)]

update_log_with_completed_tool_calls(log, completed_tool_calls, interrupt_pending) ==
    LET pending_leaf_tasks == get_pending_leaf_tasks(log)
        completed_map == CompletedMap(completed_tool_calls)
        loop[i \in 0..Len(pending_leaf_tasks)] ==
            IF i = 0 THEN [log |-> log, remaining |-> <<>>]
            ELSE LET acc == loop[i - 1]
                     task == pending_leaf_tasks[i]
                 IN IF task.unique_id \in DOMAIN completed_map
                    THEN [acc EXCEPT !.log = Append(@,
                              TaskResult(task.unique_id, completed_map[task.unique_id]))]
                    ELSE IF interrupt_pending
                    THEN [acc EXCEPT !.log = Append(@,
                              TaskResult(task.unique_id, Interrupted))]
                    ELSE [acc EXCEPT !.remaining = Append(@,
                              pending_leaf_task_to_tool_call(task, <<>>, <<>>))]
    IN loop[Len(pending_leaf_tasks)]

get_pending_tool_calls(log) ==
    LET pending_leaf_tasks == get_pending_leaf_tasks(log)
        r == get_latest_root(log)
    IN IF r = 0 THEN <<>>
       ELSE LET tail == SubSeq(log, r, Len(log))
                tm[i \in 0..Len(tail)] ==
                    IF i = 0 THEN <<>>
                    ELSE IF tail[i].type_ = "task" THEN DictSet(tm[i - 1], tail[i])
                         ELSE tm[i - 1]
                task_map == tm[Len(tail)]
                resIdx == {i \in 1..Len(tail) : tail[i].type_ = "task_result"}
                result_map ==
                    [k \in {tail[i].task_unique_id : i \in resIdx} |->
                        tail[CHOOSE i \in resIdx :
                                /\ tail[i].task_unique_id = k
                                /\ \A j \in resIdx :
                                      tail[j].task_unique_id = k => j <= i].result]
            IN [i \in 1..Len(pending_leaf_tasks) |->
                  pending_leaf_task_to_tool_call(pending_leaf_tasks[i], task_map, result_map)]

get_completed_tool_calls(full_log, from_index) ==
    LET isTask(k) == \E i \in 1..Len(full_log) :
                        full_log[i].type_ = "task" /\ full_log[i].unique_id = k
        taskOf(k) == full_log[CHOOSE i \in 1..Len(full_log) :
                        /\ full_log[i].type_ = "task" /\ full_log[i].unique_id = k
                        /\ \A j \in 1..Len(full_log) :
                              (full_log[j].type_ = "task" /\ full_log[j].unique_id = k)
                                 => j <= i]
        new_results == SelectSeq(SubSeq(full_log, from_index + 1, Len(full_log)),
                                 LAMBDA e : e.type_ = "task_result")
        found == SelectSeq(new_results, LAMBDA e : isTask(e.task_unique_id))
    IN [i \in 1..Len(found) |->
          [tool_call_id |-> taskOf(found[i].task_unique_id).unique_id,
           content |-> found[i].result,
           run_id |-> taskOf(found[i].task_unique_id).run_id,
           name |-> taskOf(found[i].task_unique_id).agent,
           arguments |-> taskOf(found[i].task_unique_id).args]]

\* ------------------------------------------------------ agent registry
\* Orchestrator._agent_registry: the classes that @register_agent registered.
Registry == {"MultiToolAgent", "UserInputTool", "UserInputToolBackend", "SimpleTool",
             "AnalystAgent", "ReportAgent", "ExecuteSQLQuery", "TalkToUser",
             "Navigate", "UpdateFileMetadata"}

\* Constructor parameters whose default is Field(...): normalize_agent_args
\* reports them when absent.
FieldRequired(agent) ==
    CASE agent = "ExecuteSQLQuery" -> {"query", "connection_id"}
      [] agent = "UpdateFileMetadata" -> {"file_id"}
      [] OTHER -> {}

\* Constructor parameters without any default: the constructor call raises
\* TypeError when one is absent.
PlainRequired(agent) ==
    CASE agent = "AnalystAgent" -> {"goal"}
      [] agent = "ReportAgent" -> {"report_id"}
      [] agent = "SimpleTool" -> {"value"}
      [] OTHER -> {}

\* Tools whose run() raises UserInputException(self._unique_id).
ClientTools == {"UserInputTool", "UserInputToolBackend", "ExecuteSQLQuery"}

normalize_agent_args(agent, args) == FieldRequired(agent) \ args.params

Args(params, refs) == [params |-> params, refs |-> refs]

AgentCall(agent, args, unique_id, error) ==
    [agent |-> agent, args |-> args, unique_id |-> unique_id, error |-> error]

NoError == ""

\* ---------------------------------------------- tasks/orchestrator.py
CompressedTask(parent_unique_id, previous_unique_id, run_id, agent, args, unique_id) ==
    [parent_unique_id |-> parent_unique_id, previous_unique_id |-> previous_unique_id,
     run_id |-> run_id, agent |-> agent, args |-> args, unique_id |-> unique_id,
     child_unique_ids |-> <<>>, result |-> NoResult]

Put(f, k, v) == [x \in DOMAIN f \cup {k} |-> IF x = k THEN v ELSE f[x]]

OrderPut(order, k) ==
    IF \E i \in 1..Len(order) : order[i] = k THEN order ELSE Append(order, k)

\* Variant: a child joins the last batch if it has its run_id, else it
\* opens a new batch.
AttachChild_last(tasks, batches, child) ==
    IF batches # <<>> /\ tasks[batches[Len(batches)][1]].run_id = tasks[child].run_id
    THEN [batches EXCEPT ![Len(batches)] = Append(@, child)]
    ELSE Append(batches, <<child>>)

\* The batches of parent after child joins the batch of its run_id.
AttachChild(tasks, batches, child) ==
    LET hit == {i \in 1..Len(batches) :
                  Len(batches[i]) > 0 /\ tasks[batches[i][1]].run_id = tasks[child].run_id}
    IN IF hit = {} THEN Append(batches, <<child>>)
       ELSE LET i == CHOOSE i \in hit : \A j \in hit : i <= j
            IN [batches EXCEPT ![i] = Append(@, child)]

\* Variant: a task_result for an unknown task ends the walk.
_rebuild_from_log_strict(log) ==
    LET walk[i \in 0..Len(log)] ==
            IF i = 0 THEN [tasks |-> <<>>, order |-> <<>>, stop |-> FALSE]
            ELSE LET acc == walk[i - 1]
                     e == log[i]
                 IN CASE acc.stop -> acc
                      [] e.type_ = "task" ->
                            [tasks |-> Put(acc.tasks, e.unique_id,
                                           CompressedTask(e.parent_unique_id,
                                               e.previous_unique_id, e.run_id, e.agent,
                                               e.args, e.unique_id)),
                             order |-> OrderPut(acc.order, e.unique_id),
                             stop |-> FALSE]
                      [] e.type_ = "task_result" /\ e.task_unique_id \in DOMAIN acc.tasks ->
                            [acc EXCEPT !.tasks[e.task_unique_id].result = e.result]
                      [] e.type_ = "task_result" -> [acc EXCEPT !.stop = TRUE]
                      [] OTHER -> acc
        w == walk[Len(log)]
        link[j \in 0..Len(w.order)] ==
            IF j = 0 THEN w.tasks
            ELSE LET ts == link[j - 1]
                     t == ts[w.order[j]]
                 IN IF t.parent_unique_id # None /\ t.parent_unique_id \in DOMAIN ts
                    THEN [ts EXCEPT ![t.parent_unique_id].child_unique_ids =
                              AttachChild(ts, @, t.unique_id)]
                    ELSE ts
    IN [tasks |-> link[Len(w.order)], order |-> w.order, log |-> log,
        log_start_index |-> Len(log)]

\* CompressedConversationLog._rebuild_from_log: tasks, their dict order, the
\* copied log and _log_start_index.
_rebuild_from_log(log) ==
    LET walk[i \in 0..Len(log)] ==
            IF i = 0 THEN [tasks |-> <<>>, order |-> <<>>]
            ELSE LET acc == walk[i - 1]
                     e == log[i]
                 IN CASE e.type_ = "task" ->
                            [tasks |-> Put(acc.tasks, e.unique_id,
                                           CompressedTask(e.parent_unique_id,
                                               e.previous_unique_id, e.run_id, e.agent,
                                               e.args, e.unique_id)),
                             order |-> OrderPut(acc.order, e.unique_id)]
                      [] e.type_ = "task_result" /\ e.task_unique_id \in DOMAIN acc.tasks ->
                            [acc EXCEPT !.tasks[e.task_unique_id].result = e.result]
                      [] OTHER -> acc
        w == walk[Len(log)]
        link[j \in 0..Len(w.order)] ==
            IF j = 0 THEN w.tasks
            ELSE LET ts == link[j - 1]
                     t == ts[w.order[j]]
                 IN IF t.parent_unique_id # None /\ t.parent_unique_id \in DOMAIN ts
                    THEN [ts EXCEPT ![t.parent_unique_id].child_unique_ids =
                              AttachChild(ts, @, t.unique_id)]
                    ELSE ts
    IN [tasks |-> link[Len(w.order)], order |-> w.order, log |-> log,
        log_start_index |-> Len(log)]

\* An event of /api/chat/stream: a streaming_event made by a callback, or
\* the terminal event (id None).
Event(type, id) == [type |-> type, id |-> id]

NoEvent == Event("", None)

\* The items of the event loop's ready queue: a step of a coroutine, a done
\* callback of asyncio.gather, the asyncio task of an event_queue.put, a
\* step of the event generator.
StepItem(c) == [kind |-> "step", co |-> c, event |-> NoEvent]
DoneItem(c) == [kind |-> "done_callback", co |-> c, event |-> NoEvent]
PutItem(e) == [kind |-> "put", co |-> None, event |-> e]
GenItem == [kind |-> "generator", co |-> None, event |-> NoEvent]

\* Variant: the callback also leaves a debug entry in the log.
Fire_logging(S, type, id) ==
    IF S.stream
    THEN [S EXCEPT !.fired = Append(@, Event(type, id)),
                   !.ready = Append(@, PutItem(Event(type, id))),
                   !.log = Append(@, TaskDebugLog(id))]
    ELSE S

\* Variant: the callback makes its event but no asyncio task that puts it.
Fire_unscheduled(S, type, id) ==
    IF S.stream THEN [S EXCEPT !.fired = Append(@, Event(type, id))] ELSE S

\* A streaming callback of chat_stream is called (process_conversation got
\* none from chat): asyncio.create_task(event_queue.put(...)).
Fire(S, type, id) ==
    IF S.stream
    THEN [S EXCEPT !.fired = Append(@, Event(type, id)),
                   !.ready = Append(@, PutItem(Event(type, id)))]
    ELSE S

\* Variant: onToolCreated is not called.
add_task_silent(S, task) ==
    [S EXCEPT !.tasks = Put(@, task.unique_id, task),
              !.order = OrderPut(@, task.unique_id),
              !.log = Append(@, Task(task.parent_unique_id, task.previous_unique_id,
                                     task.run_id, task.agent, task.args, task.unique_id))]

add_task(S, task) ==
    Fire([S EXCEPT !.tasks = Put(@, task.unique_id, task),
                   !.order = OrderPut(@, task.unique_id),
                   !.log = Append(@, Task(task.parent_unique_id, task.previous_unique_id,
                                          task.run_id, task.agent, task.args,
                                          task.unique_id))],
         "ToolCreated", task.unique_id)

assign_result(S, task_unique_id, result) ==
    Fire([S EXCEPT !.tasks[task_unique_id].result = result,
                   !.log = Append(@, TaskResult(task_unique_id, result))],
         "ToolCompleted", task_unique_id)

add_debug(S, task_unique_id) ==
    [S EXCEPT !.log = Append(@, TaskDebugLog(task_unique_id))]

\* Variant: the diff starts one entry late.
get_log_diff_late(S) == SubSeq(S.log, S.log_start_index + 2, Len(S.log))

get_log_diff(S) == SubSeq(S.log, S.log_start_index + 1, Len(S.log))

\* The children of a task as copies of their CompressedTask, batch by batch.
get_children(S, unique_id) ==
    LET groups == S.tasks[unique_id].child_unique_ids
    IN [g \in 1..Len(groups) |-> [k \in 1..Len(groups[g]) |-> S.tasks[groups[g][k]]]]

_get_leaf_pending_tasks(S) ==
    LET parent_unique_ids ==
            {S.tasks[k].parent_unique_id : k \in
                {k \in DOMAIN S.tasks : S.tasks[k].result = NoResult
                                        /\ S.tasks[k].parent_unique_id # None}}
    IN SelectSeq(S.order, LAMBDA k : S.tasks[k].result = NoResult
                                      /\ k \notin parent_unique_ids)

get_previous_root_tasks(S) ==
    LET roots == {i \in 1..Len(S.order) : S.tasks[S.order[i]].parent_unique_id = None}
    IN IF roots = {} THEN <<>>
       ELSE LET latest_root == S.tasks[S.order[CHOOSE i \in roots : \A j \in roots : j <= i]]
                \* bounded by the number of tasks: the chain of a log the
                \* endpoints produce never revisits a root
                follow[n \in 0..Len(S.order)] ==
                    IF n = 0 THEN [out |-> <<>>, cur |-> latest_root.previous_unique_id]
                    ELSE LET a == follow[n - 1]
                         IN IF a.cur # None /\ a.cur \in DOMAIN S.tasks
                            THEN [out |-> Append(a.out, a.cur),
                                  cur |-> S.tasks[a.cur].previous_unique_id]
                            ELSE [out |-> a.out, cur |-> None]
            IN follow[Len(S.order)].out

\* Variant: the UserInputException of the first suspended sibling is raised
\* as it is, the ids of the others are dropped.
_handle_exceptions_first(results) ==
    LET errs == {i \in 1..Len(results) : results[i].outcome = "error"}
        users == {i \in 1..Len(results) : results[i].outcome = "user"}
    IN IF errs # {}
       THEN [outcome |-> "error",
             ids |-> results[CHOOSE i \in errs : \A j \in errs : i <= j].ids]
       ELSE IF users # {}
            THEN [outcome |-> "user",
                  ids |-> results[CHOOSE i \in users : \A j \in users : i <= j].ids]
       ELSE [outcome |-> "ok", ids |-> <<>>]

\* Orchestrator._handle_exceptions on the gathered outcomes, in order: the
\* first exception that is no UserInputException is raised as it is (an
\* exception is known by the task whose execution raised it), else a
\* UserInputException with all collected ids, else nothing.
_handle_exceptions(results) ==
    LET errs == {i \in 1..Len(results) : results[i].outcome = "error"}
        collect[i \in 0..Len(results)] ==
            IF i = 0 THEN <<>>
            ELSE IF results[i].outcome = "user"
                 THEN collect[i - 1] \o results[i].ids
                 ELSE collect[i - 1]
        task_unique_ids == collect[Len(results)]
    IN IF errs # {}
       THEN [outcome |-> "error",
             ids |-> results[CHOOSE i \in errs : \A j \in errs : i <= j].ids]
       ELSE IF task_unique_ids # <<>> THEN [outcome |-> "user", ids |-> task_unique_ids]
       ELSE [outcome |-> "ok", ids |-> <<>>]

\* ---------------------------------------- tasks/chat_thread_processor.py
\* The arguments of a tool call are text: a JSON object with these keys, or
\* text that is no JSON.  json.dumps of a dict gives the first kind.
Json(params) == [json |-> TRUE, params |-> params]

\* The keys of arguments that start with an underscore.
PrivateKeys == {"_original_args", "_unique_id", "_note"}

\* A message of an LLM thread.  content is a list of content blocks (the
\* text of a user or tool message is one text block), tool_calls the tool
\* calls of an assistant message, tool_call_id the call a tool message
\* answers; <<>> and None stand for a key the message does not have.
Message(role, content, tool_calls, tool_call_id) ==
    [role |-> role, content |-> content, tool_calls |-> tool_calls,
     tool_call_id |-> tool_call_id]

TextBlock(text) == [type |-> "text", text |-> text]

tasks_to_assistant_message(batch) ==
    LET talk_to_user_tasks ==
            SelectSeq(batch, LAMBDA t : t.agent = "TalkToUser" /\ t.result # NoResult)
        regular_tasks == SelectSeq(batch, LAMBDA t : t.agent # "TalkToUser")
    IN Message("assistant",
           [i \in 1..Len(talk_to_user_tasks) |-> TextBlock(talk_to_user_tasks[i].result)],
           [i \in 1..Len(regular_tasks) |->
               [id |-> regular_tasks[i].unique_id, name |-> regular_tasks[i].agent,
                arguments |-> Json(regular_tasks[i].args.params \ PrivateKeys)]],
           None)

task_to_tool_message(task) ==
    Message("tool", << TextBlock(task.result) >>, <<>>, task.unique_id)

\* The messages of one batch: the assistant message of its tasks, completed
\* ones first, then the tool messages of the completed ones.
BatchMessages(batch) ==
    LET completed_tasks == SelectSeq(batch, LAMBDA t : t.result # NoResult)
        pending_tasks == SelectSeq(batch, LAMBDA t : t.result = NoResult)
        all_tasks == SelectSeq(completed_tasks \o pending_tasks,
                               LAMBDA t : t.agent # "web_search")
        answered == SelectSeq(completed_tasks,
                              LAMBDA t : t.agent \notin {"TalkToUser", "web_search"})
    IN (IF all_tasks # <<>> THEN << tasks_to_assistant_message(all_tasks) >> ELSE <<>>)
       \o [i \in 1..Len(answered) |-> task_to_tool_message(answered[i])]

\* Variant: the batches after a batch with a pending task are translated too.
RECURSIVE task_batch_to_thread_all(_)
task_batch_to_thread_all(task_batch) ==
    IF task_batch = <<>> THEN <<>>
    ELSE BatchMessages(Head(task_batch)) \o task_batch_to_thread_all(Tail(task_batch))

RECURSIVE task_batch_to_thread(_)
task_batch_to_thread(task_batch) ==
    IF task_batch = <<>> THEN <<>>
    ELSE LET batch == Head(task_batch)
         IN IF batch = <<>> THEN task_batch_to_thread(Tail(task_batch))
            ELSE BatchMessages(batch)
                 \o (IF \E i \in 1..Len(batch) : batch[i].result = NoResult THEN <<>>
                     ELSE task_batch_to_thread(Tail(task_batch)))

\* root_tasks_to_thread: for each root task the user message, the thread of
\* its children and, if the root has a result with content, that content.
RECURSIVE root_tasks_to_thread(_, _)
root_tasks_to_thread(root_tasks, S) ==
    IF root_tasks = <<>> THEN <<>>
    ELSE LET root_task == S.tasks[Head(root_tasks)]
         IN << Message("user", << TextBlock("goal") >>, <<>>, None) >>
            \o task_batch_to_thread(get_children(S, root_task.unique_id))
            \o (IF root_task.result \notin {NoResult, ""}
                THEN << Message("assistant", << TextBlock(root_task.result) >>,
                                <<>>, None) >>
                ELSE <<>>)
            \o root_tasks_to_thread(Tail(root_tasks), S)

\* What allm_request returns: finish_reason, whether there is content, the
\* tool calls.
LLMResponse(finish_reason, content, tool_calls) ==
    [finish_reason |-> finish_reason, content |-> content, tool_calls |-> tool_calls]

NoResponse == LLMResponse("", FALSE, <<>>)

\* ------------------------------------------------- asyncio: coroutines
\* A coroutine started by asyncio.gather, keyed by the unique_id of the task
\* it was started for.  task is the task it is executing now (resume climbs
\* to the parent inside one coroutine), entry the point where it continues
\* when the event loop runs it, inst the fields of the agent instance.
\* Of an AnalystAgent also tool_thread, the locals thread_history and
\* response of run(), and llm_calls, the number of LLM debug records of the
\* task (TaskDebug.llmDebug, one for each allm_request that returned).
NoInst == [child_count |-> 0, child_results |-> FALSE, previous_thread |-> FALSE,
           tool_thread |-> <<>>, thread_history |-> <<>>, response |-> NoResponse,
           llm_calls |-> 0]

NewCo(task, mode, owner) ==
    [task |-> task, mode |-> mode, owner |-> owner, pc |-> "ready", entry |-> "start",
     outcome |-> "none", ids |-> <<>>, batch |-> <<>>, nfinished |-> 0, inst |-> NoInst]

\* The coroutine ends, with a value or an exception: its done callback (the
\* one asyncio.gather attached) is scheduled.
Settle(S, c, outcome, ids) ==
    [S EXCEPT !.co[c].pc = "done", !.co[c].outcome = outcome, !.co[c].ids = ids,
              !.ready = Append(@, DoneItem(c))]

\* asyncio.gather(*[f(task) for task in ids]): one asyncio task per
\* coroutine, scheduled in order; the owner (None: process_conversation)
\* waits for all of them.
Gather(S, owner, ids, mode, entry) ==
    LET cos == [k \in DOMAIN S.co \cup {ids[i] : i \in 1..Len(ids)} |->
                   IF \E i \in 1..Len(ids) : ids[i] = k
                   THEN NewCo(k, mode, owner) ELSE S.co[k]]
        S1 == [S EXCEPT !.co = cos,
                        !.ready = @ \o [i \in 1..Len(ids) |-> StepItem(ids[i])]]
    IN IF owner = None
       THEN [S1 EXCEPT !.top = [batch |-> ids, nfinished |-> 0]]
       ELSE [S1 EXCEPT !.co[owner].pc = "gather", !.co[owner].entry = entry,
                       !.co[owner].batch = ids, !.co[owner].nfinished = 0]

\* Variant: a run_id of its own for every task of the batch.
RunAddTasks_run_id_per_task(S, agents, parent_unique_id, previous_unique_id) ==
    LET run_id == S.next
        loop[i \in 0..Len(agents)] ==
            IF i = 0 THEN [S |-> [S EXCEPT !.next = @ + 1], ids |-> <<>>]
            ELSE LET acc == loop[i - 1]
                     agent_call == agents[i]
                     fresh == agent_call.unique_id = None
                     unique_id == IF fresh THEN acc.S.next ELSE agent_call.unique_id
                     task == [CompressedTask(parent_unique_id, previous_unique_id,
                                  run_id + 100 * i,
                                  agent_call.agent, agent_call.args, unique_id)
                                EXCEPT !.result = IF agent_call.error # NoError
                                                  THEN agent_call.error ELSE NoResult]
                     S1 == IF fresh THEN [acc.S EXCEPT !.next = @ + 1] ELSE acc.S
                 IN [S |-> add_task(S1, task), ids |-> Append(acc.ids, unique_id)]
        r == loop[Len(agents)]
    IN IF parent_unique_id # None
       THEN [r EXCEPT !.S.tasks[parent_unique_id].child_unique_ids = Append(@, r.ids)]
       ELSE r


\* Variant: the batch is not recorded in the parent's child_unique_ids.
RunAddTasks_unrecorded(S, agents, parent_unique_id, previous_unique_id) ==
    LET run_id == S.next
        loop[i \in 0..Len(agents)] ==
            IF i = 0 THEN [S |-> [S EXCEPT !.next = @ + 1], ids |-> <<>>]
            ELSE LET acc == loop[i - 1]
                     agent_call == agents[i]
                     fresh == agent_call.unique_id = None
                     unique_id == IF fresh THEN acc.S.next ELSE agent_call.unique_id
                     task == [CompressedTask(parent_unique_id, previous_unique_id, run_id,
                                  agent_call.agent, agent_call.args, unique_id)
                                EXCEPT !.result = IF agent_call.error # NoError
                                                  THEN agent_call.error ELSE NoResult]
                     S1 == IF fresh THEN [acc.S EXCEPT !.next = @ + 1] ELSE acc.S
                 IN [S |-> add_task(S1, task), ids |-> Append(acc.ids, unique_id)]
    IN loop[Len(agents)]

\* The first half of Orchestrator.run: one run_id, one task per call, every
\* Task entry appended, the batch recorded in the parent.
RunAddTasks(S, agents, parent_unique_id, previous_unique_id) ==
    LET run_id == S.next
        loop[i \in 0..Len(agents)] ==
            IF i = 0 THEN [S |-> [S EXCEPT !.next = @ + 1], ids |-> <<>>]
            ELSE LET acc == loop[i - 1]
                     agent_call == agents[i]
                     fresh == agent_call.unique_id = None
                     unique_id == IF fresh THEN acc.S.next ELSE agent_call.unique_id
                     task == [CompressedTask(parent_unique_id, previous_unique_id, run_id,
                                  agent_call.agent, agent_call.args, unique_id)
                                EXCEPT !.result = IF agent_call.error # NoError
                                                  THEN agent_call.error ELSE NoResult]
                     S1 == IF fresh THEN [acc.S EXCEPT !.next = @ + 1] ELSE acc.S
                 IN [S |-> add_task(S1, task), ids |-> Append(acc.ids, unique_id)]
        r == loop[Len(agents)]
    IN IF parent_unique_id # None
       THEN [r EXCEPT !.S.tasks[parent_unique_id].child_unique_ids = Append(@, r.ids)]
       ELSE r

\* Orchestrator.run up to its await: the tasks are added and run_single is
\* gathered over them.
Orchestrator_run(S, owner, agents, parent_unique_id, previous_unique_id, entry) ==
    LET r == RunAddTasks(S, agents, parent_unique_id, previous_unique_id)
    IN Gather(r.S, owner, r.ids, "run", entry)

\* Agent.dispatch from the run() of the agent that coroutine c executes.
Dispatch(S, c, agents, entry) ==
    Orchestrator_run(S, c, agents, S.co[c].task, None, entry)

\* await allm_request(...): the coroutine waits for the provider's answer.
AwaitLLM(S, c, entry) == [S EXCEPT !.co[c].pc = "llm", !.co[c].entry = entry]

\* The outcomes of the coroutines gathered by c, in the order of the batch.
BatchResults(S, batch) == [i \in 1..Len(batch) |-> S.co[batch[i]]]

\* ------------------------------------------------------------ the agents
FlatCount(batches) ==
    LET n[i \in 0..Len(batches)] ==
            IF i = 0 THEN 0 ELSE n[i - 1] + Len(batches[i])
    IN n[Len(batches)]

\* for batch in new_batches: tool_thread.extend(task_batch_to_thread([batch]))
RECURSIVE NewMessages(_)
NewMessages(new_batches) ==
    IF new_batches = <<>> THEN <<>>
    ELSE task_batch_to_thread(<< Head(new_batches) >>) \o NewMessages(Tail(new_batches))

\* Variant: reduce sees the first child batch only.
Reduce_first_batch(S, t, inst) ==
    LET all_batches == get_children(S, t)
        child_batches == SubSeq(all_batches, 1, IF all_batches = <<>> THEN 0 ELSE 1)
        agent == S.tasks[t].agent
    IN CASE agent = "MultiToolAgent" ->
              [inst EXCEPT !.child_count = FlatCount(child_batches)]
         [] agent = "AnalystAgent" ->
              [inst EXCEPT
                  !.tool_thread = @ \o NewMessages(SubSeq(child_batches,
                                      inst.child_count + 1, Len(child_batches))),
                  !.child_count = Len(child_batches)]
         [] agent = "ReportAgent" ->
              [inst EXCEPT !.child_results =
                  @ \/ \E g \in 1..Len(child_batches) : \E k \in 1..Len(child_batches[g]) :
                          child_batches[g][k].result \notin {NoResult, ""}]
         [] OTHER -> inst

\* reduce(child_batches) of each agent class, on the instance fields.
Reduce(S, t, inst) ==
    LET child_batches == get_children(S, t)
        agent == S.tasks[t].agent
    IN CASE agent = "MultiToolAgent" ->
              [inst EXCEPT !.child_count = FlatCount(child_batches)]
         [] agent = "AnalystAgent" ->
              [inst EXCEPT
                  !.tool_thread = @ \o NewMessages(SubSeq(child_batches,
                                      inst.child_count + 1, Len(child_batches))),
                  !.child_count = Len(child_batches)]
         [] agent = "ReportAgent" ->
              [inst EXCEPT !.child_results =
                  @ \/ \E g \in 1..Len(child_batches) : \E k \in 1..Len(child_batches[g]) :
                          child_batches[g][k].result \notin {NoResult, ""}]
         [] OTHER -> inst

UserInputTools ==
    << AgentCall("UserInputTool", Args({}, 0), None, NoError),
       AgentCall("UserInputToolBackend", Args({}, 0), None, NoError) >>

AnalystCalls(n) ==
    [i \in 1..n |-> AgentCall("AnalystAgent", Args({"goal", "connection_id"}, 0),
                              None, NoError)]

\* Variant: the id of the tool call is not handed to the task.
tool_calls_to_agent_calls_fresh(tool_calls, content) ==
    LET talk == IF content
                THEN << AgentCall("TalkToUser", Args({"content_blocks"}, 0), None, NoError) >>
                ELSE <<>>
        conv(tc) == IF ~tc.arguments.json
                    THEN AgentCall(tc.name, Args({"_original_args"}, 0), None, InvalidJson)
                    ELSE AgentCall(tc.name, Args(tc.arguments.params, 0), None, NoError)
    IN talk \o [i \in 1..Len(tool_calls) |-> conv(tool_calls[i])]

\* tool_calls_to_agent_calls: a TalkToUser call for the content, then one
\* call per tool call; arguments that are no JSON give a call with an error.
tool_calls_to_agent_calls(tool_calls, content) ==
    LET talk == IF content
                THEN << AgentCall("TalkToUser", Args({"content_blocks"}, 0), None, NoError) >>
                ELSE <<>>
        conv(tc) == IF ~tc.arguments.json
                    THEN AgentCall(tc.name, Args({"_original_args"}, 0), tc.id, InvalidJson)
                    ELSE AgentCall(tc.name, Args(tc.arguments.params, 0), tc.id, NoError)
    IN talk \o [i \in 1..Len(tool_calls) |-> conv(tool_calls[i])]

RECURSIVE resume_pending_task(_, _, _)
RECURSIVE Return(_, _, _)

\* run() raised: the finally clause appends the debug entry and the
\* exception leaves the coroutine.
Raise(S, c, outcome, ids) == Settle(add_debug(S, S.co[c].task), c, outcome, ids)

\* run() returned: the result and the debug entry are appended; in resume the
\* coroutine goes on with the parent.
Return(S, c, result) ==
    LET t == S.co[c].task
        S1 == add_debug(assign_result(S, t, result), t)
        parent == S.tasks[t].parent_unique_id
    IN IF S.co[c].mode = "run" \/ parent = None THEN Settle(S1, c, "ok", <<>>)
       ELSE IF parent \notin DOMAIN S1.tasks THEN Settle(S1, c, "error", <<t>>)
       ELSE resume_pending_task(S1, c, parent)

Reverse(s) == [i \in 1..Len(s) |-> s[Len(s) + 1 - i]]

\* AnalystAgent.run at the head of its loop: another allm_request while
\* tool_thread has fewer than MAX_STEPS_LOWER_LEVEL messages.
AnalystAgent_loop(S, c) ==
    IF Len(S.co[c].inst.tool_thread) < MAX_STEPS_LOWER_LEVEL
    THEN AwaitLLM(S, c, "analyst_llm")
    ELSE Return(S, c, MaximumIterations)

\* AnalystAgent.run from its start.
AnalystAgent_run(S, c) ==
    AnalystAgent_loop(
        [S EXCEPT !.co[c].inst.thread_history =
            root_tasks_to_thread(Reverse(get_previous_root_tasks(S)), S)], c)

MultiToolAgent_run(S, c) ==
    LET inst == S.co[c].inst
    IN IF inst.previous_thread THEN Return(S, c, "thread length")
       ELSE IF inst.child_count = 0 THEN Dispatch(S, c, UserInputTools, "multi_dispatch_1")
       ELSE IF inst.child_count = 1
            THEN Dispatch(S, c, SubSeq(UserInputTools, 1, 1), "multi_dispatch_2")
       ELSE Return(S, c, AllToolsCompleted)

ReportAgent_run(S, c) ==
    LET t == S.co[c].task
        refs == S.tasks[t].args.refs
    IN IF refs > 0 /\ ~S.co[c].inst.child_results
       THEN Dispatch(S, c, AnalystCalls(refs), "report_dispatch")
       ELSE AwaitLLM(S, c, "report_llm")

\* A file_id argument whose value int() does not turn into a number other
\* than 0; the key "file_id" stands for a value that it does.
BadFileId == "file_id='abc'"

\* Variant: Navigate.run without its validation.
Navigate_run_unchecked(S, c) == Raise(S, c, "user", << S.co[c].task >>)

\* Navigate.run: the arguments are validated, then the tool is left to the
\* client.
Navigate_run(S, c) ==
    LET t == S.co[c].task
        params == S.tasks[t].args.params
    IN IF params \cap {"file_id", BadFileId, "path", "newFileType"} = {}
       THEN Return(S, c, NavigateNothing)
       ELSE IF BadFileId \in params THEN Return(S, c, InvalidFileId)
       ELSE Raise(S, c, "user", <<t>>)

\* UpdateFileMetadata.run.
UpdateFileMetadata_run(S, c) ==
    LET t == S.co[c].task
    IN IF S.tasks[t].args.params \cap {"name", "description", "path"} = {}
       THEN Return(S, c, UpdateNothing)
       ELSE Raise(S, c, "user", <<t>>)

\* The constructor call, reduce and the start of run(), after run_single or
\* resume_pending_task has normalized the arguments.
Execute(S, c, t) ==
    LET agent == S.tasks[t].agent
    IN IF PlainRequired(agent) \ S.tasks[t].args.params # {}
       THEN Settle(S, c, "error", <<t>>)
       ELSE LET inst0 == [NoInst EXCEPT !.previous_thread =
                             agent = "MultiToolAgent" /\ get_previous_root_tasks(S) # <<>>]
                S1 == [S EXCEPT !.co[c].task = t, !.co[c].inst = Reduce(S, t, inst0),
                                !.executed = Append(@, t)]
            IN CASE agent \in ClientTools -> Raise(S1, c, "user", <<t>>)
                 [] agent = "TalkToUser" -> Return(S1, c, "talk")
                 [] agent = "SimpleTool" -> Return(S1, c, "Tool result: value")
                 [] agent = "Navigate" -> Navigate_run(S1, c)
                 [] agent = "UpdateFileMetadata" -> UpdateFileMetadata_run(S1, c)
                 [] agent = "MultiToolAgent" -> MultiToolAgent_run(S1, c)
                 [] agent = "AnalystAgent" -> AnalystAgent_run(S1, c)
                 [] agent = "ReportAgent" -> ReportAgent_run(S1, c)

run_single(S, c) ==
    LET t == S.co[c].task
        task == S.tasks[t]
    IN IF task.result # NoResult THEN Settle(S, c, "ok", <<>>)
       ELSE IF task.args.params \cap {"_unique_id", "orchestrator"} # {}
            THEN Settle(S, c, "error", <<t>>)
       ELSE IF task.agent \notin Registry THEN Settle(S, c, "error", <<t>>)
       ELSE IF normalize_agent_args(task.agent, task.args) # {}
            THEN Settle(assign_result(S, t, MissingParams), c, "ok", <<>>)
       ELSE Execute(S, c, t)

\* Variant: a task is resumed before all its children have a result.
resume_pending_task_eager(S, c, t) ==
    LET task == S.tasks[t]
    IN IF t \in S.processing \/ task.result # NoResult THEN Settle(S, c, "ok", <<>>)
       ELSE LET S1 == [S EXCEPT !.processing = @ \cup {t}, !.co[c].task = t]
            IN IF task.agent \notin Registry THEN Settle(S1, c, "error", <<t>>)
               ELSE IF normalize_agent_args(task.agent, task.args) # {}
                    THEN Settle(assign_result(S1, t, MissingParams), c, "ok", <<>>)
               ELSE Execute(S1, c, t)

resume_pending_task(S, c, t) ==
    LET task == S.tasks[t]
        child_tasks == get_children(S, t)
    IN IF t \in S.processing \/ task.result # NoResult THEN Settle(S, c, "ok", <<>>)
       ELSE IF \E g \in 1..Len(child_tasks) : \E k \in 1..Len(child_tasks[g]) :
                  child_tasks[g][k].result = NoResult
            THEN Settle(S, c, "ok", <<>>)
       ELSE LET S1 == [S EXCEPT !.processing = @ \cup {t}, !.co[c].task = t]
            IN IF task.agent \notin Registry THEN Settle(S1, c, "error", <<t>>)
               ELSE IF normalize_agent_args(task.agent, task.args) # {}
                    THEN Settle(assign_result(S1, t, MissingParams), c, "ok", <<>>)
               ELSE Execute(S1, c, t)

\* The coroutine continues after Agent.dispatch's gather: the exception of
\* Orchestrator._handle_exceptions leaves run(), or reduce is called again.
AfterDispatch(S, c) ==
    LET t == S.co[c].task
        h == _handle_exceptions(BatchResults(S, S.co[c].batch))
        S1 == [S EXCEPT !.co[c].inst = Reduce(S, t, @)]
        entry == S.co[c].entry
    IN CASE entry = "report_dispatch" ->
              IF h.outcome = "user" THEN Raise(S, c, "user", h.ids)
              ELSE IF h.outcome = "error" THEN Return(S, c, "report failed")
              ELSE Return(S1, c, NoResult)
         [] h.outcome # "ok" -> Raise(S, c, h.outcome, h.ids)
         [] entry = "analyst_dispatch" -> AnalystAgent_loop(S1, c)
         [] entry = "multi_dispatch_1" ->
              IF S1.co[c].inst.child_count = 1
              THEN Dispatch(S1, c, SubSeq(UserInputTools, 1, 1), "multi_dispatch_2")
              ELSE Return(S1, c, AllToolsCompleted)
         [] entry = "multi_dispatch_2" -> Return(S1, c, AllToolsCompleted)

\* AnalystAgent.run after allm_request returned the response; allm_request
\* has called on_content for the content it streamed.
AnalystAgent_step(S, c, response) ==
    LET n == Len(response.tool_calls)
        \* the id the provider gave the call; where the answer names none, an
        \* id no other call has
        tool_calls == [i \in 1..n |->
                          [id |-> IF "id" \in DOMAIN response.tool_calls[i]
                                  THEN response.tool_calls[i].id ELSE S.next + i - 1,
                           name |-> response.tool_calls[i].name,
                           arguments |-> response.tool_calls[i].arguments]]
        S1 == [S EXCEPT !.next = @ + n,
                        !.co[c].inst.response = [response EXCEPT !.tool_calls = tool_calls],
                        !.co[c].inst.llm_calls = @ + 1]
        agent_calls == tool_calls_to_agent_calls(tool_calls, response.content)
        streamed(X) == IF response.content
                       THEN Fire(X, "StreamedContent", X.co[c].task) ELSE X
    IN IF response.finish_reason = "stop" THEN Return(streamed(S1), c, "analyst result")
       ELSE IF agent_calls # <<>>
            THEN Dispatch(streamed(S1), c, agent_calls, "analyst_dispatch")
       ELSE AnalystAgent_loop(streamed(S1), c)

\* One turn of coroutine c on the event loop, up to its next await.
CoStep(S, c, response) ==
    LET entry == S.co[c].entry
    IN CASE entry = "start" /\ S.co[c].mode = "run" -> run_single(S, c)
         [] entry = "start" /\ S.co[c].mode = "resume" ->
              resume_pending_task(S, c, S.co[c].task)
         [] entry = "analyst_llm" -> AnalystAgent_step(S, c, response)
         [] entry = "report_llm" -> Return(S, c, "report")
         [] OTHER -> AfterDispatch(S, c)

\* gather's done callback for coroutine c: the last one wakes the owner.
DoneCallback(S, c) ==
    LET owner == S.co[c].owner
    IN IF owner = None
       THEN LET S1 == [S EXCEPT !.top.nfinished = @ + 1]
            IN IF S1.top.nfinished = Len(S1.top.batch)
               THEN [S1 EXCEPT !.ready = Append(@, StepItem(None))] ELSE S1
       ELSE LET S1 == [S EXCEPT !.co[owner].nfinished = @ + 1]
            IN IF S1.co[owner].nfinished = Len(S1.co[owner].batch)
               THEN [S1 EXCEPT !.co[owner].pc = "ready",
                               !.ready = Append(@, StepItem(owner))]
               ELSE S1

\* ------------------------------------------------------------ the inputs
\* What the LLM may answer to an analyst: finish_reason, whether there is
\* content, and the tool calls (name, arguments: a JSON object with these
\* keys, or text that is no JSON).
Garbage == [json |-> FALSE, params |-> {}]
ToolCall(name, arguments) == [name |-> name, arguments |-> arguments]

SqlCall == ToolCall("ExecuteSQLQuery", Json({"query", "connection_id"}))

\* To the analysts a report dispatched: an answer, a tool call, a call of a
\* tool that does not exist.
ReportLLMResponses ==
    { LLMResponse("stop", TRUE, <<>>),
      LLMResponse("tool_calls", FALSE, << SqlCall >>),
      LLMResponse("tool_calls", FALSE, << ToolCall("NoSuchTool", Json({})) >>) }

\* To a root analyst also: arguments that are no JSON, arguments that lack
\* a required parameter.
LLMResponses ==
    ReportLLMResponses \cup
    { LLMResponse("tool_calls", FALSE, << ToolCall("ExecuteSQLQuery", Garbage) >>),
      LLMResponse("tool_calls", FALSE, << ToolCall("ExecuteSQLQuery", Json({"query"})) >>) }

\* request.agent and request.agent_args of a request with user_message; the
\* last one lacks report_id, which ReportAgent requires.
RootChoices ==
    { [agent |-> "MultiToolAgent", agent_args |-> Args({}, 0)],
      [agent |-> "AnalystAgent", agent_args |-> Args({}, 0)],
      [agent |-> "ReportAgent", agent_args |-> Args({"report_id"}, 2)],
      [agent |-> "ReportAgent", agent_args |-> Args({}, 0)] }

\* request.agent is not read when there is no user_message.
NoRoot == [agent |-> "", agent_args |-> Args({}, 0)]

\* The content a client returns for a tool call.
ContentFor(id) == IF id % 2 = 0 THEN "Response 2" ELSE "Response 1"

RECURSIVE SortedSeq(_)
SortedSeq(set) ==
    IF set = {} THEN <<>>
    ELSE LET m == CHOOSE x \in set : \A y \in set : x <= y
         IN <<m>> \o SortedSeq(set \ {m})

ToolMessages(ids) ==
    LET sq == SortedSeq(ids)
    IN [i \in 1..Len(sq) |-> [tool_call_id |-> sq[i], content |-> ContentFor(sq[i])]]

TaskEntries(l) == SelectSeq(l, LAMBDA e : e.type_ = "task")

\* Task entries a new root creates without asking the LLM.
RootNeed(agent, agent_args, l) ==
    CASE agent = "MultiToolAgent" -> IF get_latest_root(l) = 0 THEN 3 ELSE 1
      [] agent = "ReportAgent" -> 1 + agent_args.refs
      [] OTHER -> 1

\* ------------------------------------------------------------- the state
VARIABLES
    log,              \* the conversation log the client holds
    phase,            \* "idle", "running" (a request is being processed), "responded"
    request,          \* the request being processed
    response,         \* the response to it
    last,             \* of the response that produced log: kind, pending_tool_calls
    nreq,             \* requests sent so far
    tasks, order,     \* CompressedConversationLog.tasks and its dict order
    olog,             \* request.log, then CompressedConversationLog.log
    log_start_index,  \* CompressedConversationLog._log_start_index
    co,               \* the coroutines of this request
    ready,            \* the event loop's ready queue
    top,              \* the gather awaited by Orchestrator.run/resume for the request
    processing,       \* _processing_unique_ids of resume
    executed,         \* the tasks whose agent was instantiated, reduced and run
    nextId,           \* source of fresh ids
    stream,           \* the request is on /api/chat/stream: callbacks are given
    fired,            \* the events the callbacks made in this request, in order
    event_queue,      \* chat_stream's asyncio.Queue
    gen,              \* event_generator: "none", "waiting" (in event_queue.get),
                      \* "ready" (scheduled), "sending" (an event is being sent),
                      \* "finished"
    emitted           \* the SSE events the generator has yielded

vars == << log, phase, request, response, last, nreq, tasks, order, olog,
           log_start_index, co, ready, top, processing, executed, nextId,
           stream, fired, event_queue, gen, emitted >>

St == [tasks |-> tasks, order |-> order, log |-> olog,
       log_start_index |-> log_start_index, co |-> co, ready |-> ready, top |-> top,
       processing |-> processing, executed |-> executed, next |-> nextId,
       stream |-> stream, fired |-> fired, event_queue |-> event_queue, gen |-> gen]

Commit(S) ==
    /\ tasks' = S.tasks /\ order' = S.order /\ olog' = S.log
    /\ log_start_index' = S.log_start_index /\ co' = S.co /\ ready' = S.ready
    /\ top' = S.top /\ processing' = S.processing /\ executed' = S.executed
    /\ nextId' = S.next
    /\ stream' = S.stream /\ fired' = S.fired /\ event_queue' = S.event_queue
    /\ gen' = S.gen

NoTop == [batch |-> <<>>, nfinished |-> 0]

\* An id above every unique_id and run_id of the log: ids that no log holds
\* any more are as good as new.
FreshAfter(l) ==
    LET used == {0} \cup {l[i].unique_id : i \in {i \in 1..Len(l) : l[i].type_ = "task"}}
                    \cup {l[i].run_id : i \in {i \in 1..Len(l) : l[i].type_ = "task"}}
    IN 1 + CHOOSE m \in used : \A x \in used : x <= m

\* Variant: the ids the orchestrator makes are a function of the log.
Orchestrator_reseeded(l, next) ==
    LET c == _rebuild_from_log(l)
    IN [tasks |-> c.tasks, order |-> c.order, log |-> c.log,
        log_start_index |-> c.log_start_index, co |-> <<>>, ready |-> <<>>,
        top |-> NoTop, processing |-> {}, executed |-> <<>>, next |-> FreshAfter(l),
        stream |-> FALSE, fired |-> <<>>, event_queue |-> <<>>, gen |-> "none"]

\* Orchestrator(log): the compressed state rebuilt from the log.
Orchestrator(l, next) ==
    LET c == _rebuild_from_log(l)
    IN [tasks |-> c.tasks, order |-> c.order, log |-> c.log,
        log_start_index |-> c.log_start_index, co |-> <<>>, ready |-> <<>>,
        top |-> NoTop, processing |-> {}, executed |-> <<>>, next |-> next,
        stream |-> FALSE, fired |-> <<>>, event_queue |-> <<>>, gen |-> "none"]

NoServer(next) == Orchestrator(<<>>, next)

NoRequest == [kind |-> "none", user_message |-> FALSE, completed_tool_calls |-> <<>>,
              agent |-> "", agent_args |-> Args({}, 0)]

NoneResponse == [kind |-> "none", path |-> "", logDiff |-> <<>>,
                 pending_tool_calls |-> <<>>, completed_tool_calls |-> <<>>,
                 error |-> FALSE]

ConversationResponse(path, logDiff, pending_tool_calls, completed_tool_calls, error) ==
    [kind |-> "chat", path |-> path, logDiff |-> logDiff,
     pending_tool_calls |-> pending_tool_calls,
     completed_tool_calls |-> completed_tool_calls, error |-> error]

Init ==
    /\ log = <<>> /\ phase = "idle" /\ request = NoRequest /\ response = NoneResponse
    /\ last = [kind |-> "none", pending_tool_calls |-> <<>>] /\ nreq = 0
    /\ tasks = <<>> /\ order = <<>> /\ olog = <<>> /\ log_start_index = 0
    /\ co = <<>> /\ ready = <<>> /\ top = NoTop /\ processing = {} /\ executed = <<>>
    /\ nextId = 1
    /\ stream = FALSE /\ fired = <<>> /\ event_queue = <<>> /\ gen = "none"
    /\ emitted = <<>>

\* process_conversation from the orchestrator's log: lines 1046-1058.
FinalResponse(path, S, init_log_length) ==
    ConversationResponse(path, SubSeq(S.log, init_log_length + 1, Len(S.log)),
        get_pending_tool_calls(S.log),
        get_completed_tool_calls(S.log, init_log_length), FALSE)

\* chat(): the response built when process_conversation raised.
ErrorResponse == ConversationResponse("error", <<>>, <<>>, <<>>, TRUE)

\* chat_stream's run_conversation after process_conversation returned or
\* raised: await event_queue.put(("done", response)) or (("error", e)); the
\* queue has no bound, so the put does not wait, and it wakes the generator
\* waiting in event_queue.get().
PutTerminal(S, type) ==
    IF ~S.stream THEN S
    ELSE LET S1 == [S EXCEPT !.event_queue = Append(@, Event(type, None))]
         IN IF S.gen = "waiting"
            THEN [S1 EXCEPT !.gen = "ready", !.ready = Append(@, GenItem)]
            ELSE S1

\* process_conversation up to its first await, or to its return when it does
\* not wait, on request.log = l: the server's state, whether the request is
\* answered, and the response (chat_stream's run_conversation puts it on the
\* event queue with the done event).
process_conversation(streaming, l, next, user_message, ids, root) ==
    LET is_start == user_message
        init_log_length == Len(l)
        r == get_latest_root(l)
        latest_root_id == IF r = 0 THEN None ELSE l[r].unique_id
        completed_tool_calls == ToolMessages(ids)
        u == update_log_with_completed_tool_calls(l, completed_tool_calls, is_start)
        S0 == [Orchestrator(u.log, next) EXCEPT
                  !.stream = streaming,
                  !.gen = IF streaming THEN "waiting" ELSE "none"]
        agent_args == [root.agent_args EXCEPT !.params = @ \cup {"goal"}]
        leaves == _get_leaf_pending_tasks(S0)
    IN IF u.remaining # <<>>
       THEN [response |-> ConversationResponse("short",
                              SubSeq(u.log, init_log_length + 1, Len(u.log)), u.remaining,
                              get_completed_tool_calls(u.log, init_log_length), FALSE),
             phase |-> "responded",
             S |-> PutTerminal([NoServer(next) EXCEPT
                                   !.log = u.log, !.stream = streaming,
                                   !.gen = IF streaming THEN "waiting" ELSE "none"],
                               "done")]
       ELSE IF is_start
       THEN [response |-> NoneResponse,
             phase |-> "running",
             S |-> Orchestrator_run(S0, None,
                       << AgentCall(root.agent, agent_args, None, NoError) >>,
                       None, latest_root_id, "")]
       ELSE IF leaves = <<>>
       THEN [response |-> FinalResponse("resume", S0, init_log_length),
             phase |-> "responded",
             S |-> PutTerminal(S0, "done")]
       ELSE [response |-> NoneResponse,
             phase |-> "running",
             S |-> Gather(S0, None, leaves, "resume", "")]

\* A conversation request, on /api/chat or (streaming) on /api/chat/stream.
\* On /api/chat/stream the generator has started run_conversation and waits
\* for the first event.
Request(streaming, user_message, ids, root) ==
    /\ phase = "idle" /\ nreq < MaxReq
    /\ user_message =>
          Len(TaskEntries(log)) + RootNeed(root.agent, root.agent_args, log) <= MaxTasks
    /\ \E o \in {process_conversation(streaming, log, nextId, user_message, ids, root)} :
          /\ request' = [kind |-> "chat", user_message |-> user_message,
                         completed_tool_calls |-> ToolMessages(ids),
                         agent |-> root.agent, agent_args |-> root.agent_args]
          /\ nreq' = nreq + 1
          /\ UNCHANGED << log, last, emitted >>
          /\ response' = o.response
          /\ phase' = o.phase
          /\ Commit(o.S)

\* POST /api/chat.
Chat(user_message, ids, root) == Request(FALSE, user_message, ids, root)

\* POST /api/chat/stream.
ChatStream(user_message, ids, root) == Request(TRUE, user_message, ids, root)

\* POST /api/chat/close.
Close ==
    /\ phase = "idle" /\ nreq < MaxReq
    /\ LET start_index == Len(log)
           u == update_log_with_completed_tool_calls(log, <<>>, TRUE)
       IN /\ request' = [NoRequest EXCEPT !.kind = "close"]
          /\ response' = [NoneResponse EXCEPT !.kind = "close",
                            !.logDiff = SubSeq(u.log, start_index + 1, Len(u.log))]
          /\ Commit([NoServer(nextId) EXCEPT !.log = u.log])
    /\ nreq' = nreq + 1
    /\ phase' = "responded"
    /\ UNCHANGED << log, last, emitted >>

\* Tasks made from tool calls of the LLM: the children of analysts.
LLMCalls(S) ==
    Cardinality({k \in DOMAIN S.tasks :
        /\ S.tasks[k].parent_unique_id \in DOMAIN S.tasks
        /\ S.tasks[S.tasks[k].parent_unique_id].agent = "AnalystAgent"})

\* The event loop runs the coroutine at the head of the ready queue up to its
\* next await; an analyst that was waiting for the LLM gets its response.
RunStep(menu, report_menu) ==
    /\ phase = "running" /\ ready # <<>>
    /\ ready[1].kind = "step" /\ ready[1].co # None
    /\ LET c == ready[1].co
           S == [St EXCEPT !.ready = Tail(@)]
       IN IF co[c].entry = "analyst_llm"
          THEN \E r \in IF tasks[co[c].task].parent_unique_id = None
                        THEN menu ELSE report_menu :
                  /\ Len(order) + Len(r.tool_calls) <= MaxTasks
                  /\ LLMCalls(St) + Len(r.tool_calls) <= MaxCalls
                  /\ Commit(CoStep(S, c, r))
          ELSE Commit(CoStep(S, c, NoResponse))
    /\ UNCHANGED << log, phase, request, response, last, nreq, emitted >>

\* The event loop runs a done callback of asyncio.gather.
GatherCallback ==
    /\ phase = "running" /\ ready # <<>>
    /\ ready[1].kind = "done_callback"
    /\ Commit(DoneCallback([St EXCEPT !.ready = Tail(@)], ready[1].co))
    /\ UNCHANGED << log, phase, request, response, last, nreq, emitted >>

\* The provider's answer to the allm_request of coroutine c arrives.
LLMComplete(c) ==
    /\ phase = "running" /\ c \in DOMAIN co /\ co[c].pc = "llm"
    /\ co' = [co EXCEPT ![c].pc = "ready"]
    /\ ready' = Append(ready, StepItem(c))
    /\ UNCHANGED << log, phase, request, response, last, nreq, tasks, order, olog,
                    log_start_index, top, processing, executed, nextId,
                    stream, fired, event_queue, gen, emitted >>

\* process_conversation after Orchestrator.run/resume on server state S: an
\* exception that is no UserInputException reaches chat(), which answers
\* with an error; else the response is built from the orchestrator's log.
Answer(S, user_message, init_log_length) ==
    IF _handle_exceptions(BatchResults(S, S.top.batch)).outcome = "error"
    THEN ErrorResponse
    ELSE FinalResponse(IF user_message THEN "run" ELSE "resume", S, init_log_length)

\* process_conversation continues after Orchestrator.run/resume.
Respond ==
    /\ phase = "running" /\ ready # <<>>
    /\ ready[1] = StepItem(None)
    /\ response' = Answer(St, request.user_message, Len(log))
    /\ Commit(PutTerminal([St EXCEPT !.ready = Tail(@)],
                          IF response'.error THEN "error" ELSE "done"))
    /\ phase' = "responded"
    /\ UNCHANGED << log, request, last, nreq, emitted >>

\* The event loop runs the asyncio task of an event_queue.put that a
\* callback created: the event enters the queue and wakes the generator if
\* it waits in event_queue.get().
PutStep ==
    /\ phase \in {"running", "responded"} /\ ready # <<>>
    /\ ready[1].kind = "put"
    /\ LET S == [St EXCEPT !.ready = Tail(@),
                           !.event_queue = Append(@, ready[1].event)]
       IN Commit(IF gen = "waiting"
                 THEN [S EXCEPT !.gen = "ready", !.ready = Append(@, GenItem)]
                 ELSE S)
    /\ UNCHANGED << log, phase, request, response, last, nreq, emitted >>

\* The event loop runs event_generator: event_queue.get() waits when the
\* queue is empty; else the generator yields the SSE event of the first
\* item (done and error end it) and the event is sent to the client.
GenStep ==
    /\ phase \in {"running", "responded"} /\ ready # <<>>
    /\ ready[1].kind = "generator"
    /\ IF event_queue = <<>>
       THEN /\ Commit([St EXCEPT !.ready = Tail(@), !.gen = "waiting"])
            /\ UNCHANGED emitted
       ELSE /\ emitted' = Append(emitted, Head(event_queue))
            /\ Commit([St EXCEPT !.ready = Tail(@), !.event_queue = Tail(@),
                                 !.gen = IF Head(event_queue).type \in {"done", "error"}
                                         THEN "finished" ELSE "sending"])
    /\ UNCHANGED << log, phase, request, response, last, nreq >>

\* The event has been sent: the generator is scheduled again.
SendComplete ==
    /\ gen = "sending"
    /\ gen' = "ready"
    /\ ready' = Append(ready, GenItem)
    /\ UNCHANGED << log, phase, request, response, last, nreq, tasks, order, olog,
                    log_start_index, co, top, processing, executed, nextId,
                    stream, fired, event_queue, emitted >>

\* The client appends the logDiff to its log; on /api/chat/stream it has
\* it from the done event, once the stream has ended.
Deliver ==
    /\ phase = "responded"
    /\ stream => gen = "finished"
    /\ log' = log \o response.logDiff
    /\ last' = IF response.error THEN last
               ELSE [kind |-> response.kind,
                     pending_tool_calls |-> response.pending_tool_calls]
    /\ phase' = "idle"
    /\ request' = NoRequest
    /\ response' = NoneResponse
    /\ Commit(NoServer(FreshAfter(log')))
    /\ emitted' = <<>>
    /\ UNCHANGED nreq

PendingIds(l) == Ids(get_pending_leaf_tasks(l))

Next ==
    \/ \E root \in RootChoices, ids \in SUBSET PendingIds(log) :
          Chat(TRUE, ids, root)
    \/ \E ids \in SUBSET (PendingIds(log) \cup {WrongId}) :
          Chat(FALSE, ids, NoRoot)
    \/ Close
    \/ RunStep(LLMResponses, ReportLLMResponses)
    \/ GatherCallback
    \/ \E c \in DOMAIN co : LLMComplete(c)
    \/ Respond
    \/ Deliver

Spec == Init /\ [][Next]_vars

\* The requests a client of /api/chat/stream sends: a new message to an
\* analyst or to the agent with two client tools, completions of pending
\* tool calls.
StreamRoots == {r \in RootChoices : r.agent \in {"MultiToolAgent", "AnalystAgent"}}

StreamNext ==
    \/ \E root \in StreamRoots, ids \in SUBSET PendingIds(log) :
          ChatStream(TRUE, ids, root)
    \/ \E ids \in SUBSET PendingIds(log) : ChatStream(FALSE, ids, NoRoot)
    \/ RunStep(LLMResponses, ReportLLMResponses)
    \/ GatherCallback
    \/ \E c \in DOMAIN co : LLMComplete(c)
    \/ Respond
    \/ PutStep
    \/ GenStep
    \/ SendComplete
    \/ Deliver

StreamSpec == Init /\ [][StreamNext]_vars

\* A client that sends a request again: it drops the response, keeps its
\* log and repeats the request.  The agents are those of test_agents.py,
\* which ask no LLM, so that the request meets the same behaviour; ids that
\* generate_unique_tool_call_id makes are never ids it made before.
RepeatRoots == {r \in RootChoices : r.agent = "MultiToolAgent"}

Resend ==
    /\ phase = "responded" /\ request.kind = "chat" /\ ~response.error
    /\ nreq < MaxReq
    /\ LET ids == {request.completed_tool_calls[i].tool_call_id :
                      i \in 1..Len(request.completed_tool_calls)}
           root == [agent |-> request.agent, agent_args |-> request.agent_args]
       IN \E o \in {process_conversation(FALSE, log, nextId, request.user_message,
                                          ids, root)} :
             /\ last' = [kind |-> "dropped",
                         pending_tool_calls |-> response.pending_tool_calls]
             /\ response' = o.response
             /\ phase' = o.phase
             /\ Commit(o.S)
    /\ nreq' = nreq + 1
    /\ UNCHANGED << log, request, emitted >>

RepeatNext ==
    \/ \E root \in RepeatRoots, ids \in SUBSET PendingIds(log) :
          Chat(TRUE, ids, root)
    \/ \E ids \in SUBSET (PendingIds(log) \cup {WrongId}) :
          Chat(FALSE, ids, NoRoot)
    \/ Close
    \/ RunStep(LLMResponses, ReportLLMResponses)
    \/ GatherCallback
    \/ Respond
    \/ Resend
    \/ Deliver

RepeatSpec == Init /\ [][RepeatNext]_vars

\* A CompressedConversationLog on its own: built from any sequence of log
\* entries, then used through add_task, assign_result and add_debug.  Ids
\* are opaque: a log introduces the unique_ids 1, 2, ... and the run_ids 1, 2
\* in this order; a parent_unique_id or task_unique_id may name a task that
\* the log holds, holds later or never holds, and the first unique_id may
\* come again.
Count(l) ==
    Cardinality({l[i].unique_id : i \in {i \in 1..Len(l) : l[i].type_ = "task"}})

RunIds(l) ==
    {1} \cup {2 : i \in {i \in 1..Len(l) : l[i].type_ = "task" /\ l[i].run_id = 1}}

TaskChoices(l) ==
    {Task(parent, None, run_id, "UserInputTool", Args({}, 0), id) :
        parent \in {None, 1, 2}, run_id \in RunIds(l), id \in {1, Count(l) + 1}}

ResultChoices(l) ==
    {TaskResult(id, ContentFor(id)) : id \in 1..(Count(l) + 1)}

DebugChoices == {TaskDebugLog(1)}

\* The client's log gets one more entry.
Receive(e) ==
    /\ phase = "idle" /\ Len(log) < MaxLen
    /\ log' = Append(log, e)
    /\ UNCHANGED << phase, request, response, last, nreq, tasks, order, olog,
                    log_start_index, co, ready, top, processing, executed, nextId,
                    stream, fired, event_queue, gen, emitted >>

\* CompressedConversationLog(log).
Construct ==
    /\ phase = "idle"
    /\ phase' = "running"
    /\ Commit(Orchestrator(log, nextId))
    /\ UNCHANGED << log, request, response, last, nreq, emitted >>

\* add_task, assign_result and add_debug (of a task the state holds: any
\* other id is a KeyError) on the state, without an orchestrator.
AddTask(e) ==
    /\ phase = "running" /\ Len(olog) < MaxLen
    /\ Commit(add_task(St, CompressedTask(e.parent_unique_id, e.previous_unique_id,
                                          e.run_id, e.agent, e.args, e.unique_id)))
    /\ UNCHANGED << log, phase, request, response, last, nreq, emitted >>

AssignResult(e) ==
    /\ phase = "running" /\ Len(olog) < MaxLen
    /\ e.task_unique_id \in DOMAIN tasks
    /\ Commit(assign_result(St, e.task_unique_id, e.result))
    /\ UNCHANGED << log, phase, request, response, last, nreq, emitted >>

AddDebug(e) ==
    /\ phase = "running" /\ Len(olog) < MaxLen
    /\ e.task_unique_id \in DOMAIN tasks
    /\ Commit(add_debug(St, e.task_unique_id))
    /\ UNCHANGED << log, phase, request, response, last, nreq, emitted >>

RebuildNext ==
    \/ \E e \in TaskChoices(log) \cup ResultChoices(log) \cup DebugChoices : Receive(e)
    \/ Construct
    \/ \E e \in TaskChoices(olog) : AddTask(e)
    \/ \E e \in ResultChoices(olog) : AssignResult(e)
    \/ \E e \in DebugChoices : AddDebug(e)

RebuildSpec == Init /\ [][RebuildNext]_vars

\* --------------------------------------- main.py: the LLM calls of a logDiff
\* The task_debug entries that run_single appends carry the LLM debug
\* records of the task (TaskDebug.llmDebug): one record for each LLM call,
\* with the call id litellm reported (None when no chunk of the stream
\* carried one, tasks/llm/client.py 274, 340-341) and the request and
\* response of the call in extra.  The other fields of a record (model,
\* duration, tokens, cost) are left out.
LLMDebug(lllm_call_id, extra) == [lllm_call_id |-> lllm_call_id, extra |-> extra]

TaskDebugLogWith(task_unique_id, llmDebug) ==
    [type_ |-> "task_debug", task_unique_id |-> task_unique_id, llmDebug |-> llmDebug]

LLMCallDetail(llm_call_id, extra) == [llm_call_id |-> llm_call_id, extra |-> extra]

\* The records of the task_debug entries of a log diff, in the order of the
\* two nested loops.
RECURSIVE LLMRecords(_)
LLMRecords(log_diff) ==
    IF log_diff = <<>> THEN <<>>
    ELSE (IF Head(log_diff).type_ = "task_debug" THEN Head(log_diff).llmDebug
          ELSE <<>>) \o LLMRecords(Tail(log_diff))

\* if call_id and call_id not in llm_calls: llm_calls[call_id] = ...
RECURSIVE CollectCalls(_, _)
CollectCalls(records, llm_calls) ==
    IF records = <<>> THEN llm_calls
    ELSE LET r == Head(records)
         IN CollectCalls(Tail(records),
                IF r.lllm_call_id # None /\ r.lllm_call_id \notin DOMAIN llm_calls
                THEN Put(llm_calls, r.lllm_call_id,
                         LLMCallDetail(r.lllm_call_id, r.extra))
                ELSE llm_calls)

\* llm_debug.extra = None, of every record of a task_debug entry.
ClearExtra(entry) ==
    IF entry.type_ = "task_debug"
    THEN [entry EXCEPT !.llmDebug =
             [k \in DOMAIN @ |-> [@[k] EXCEPT !.extra = None]]]
    ELSE entry

\* extract_llm_calls_from_log_diff: the dict it returns and the log diff as
\* it has left it (the entries are modified in place).
extract_llm_calls_from_log_diff(log_diff) ==
    [llm_calls |-> CollectCalls(LLMRecords(log_diff), <<>>),
     log_diff |-> [i \in DOMAIN log_diff |-> ClearExtra(log_diff[i])]]

\* The LLM calls of one task run: for each call, whether litellm reported a
\* call id.
CallIdChoices ==
    {<<>>, << TRUE >>, << FALSE >>, << TRUE, TRUE >>, << TRUE, FALSE >>,
     << FALSE, TRUE >>}

\* The records of these calls: each call has its own extra, and its own call
\* id when it has one.
LLMDebugs(next, reported) ==
    [k \in DOMAIN reported |->
        LLMDebug(IF reported[k] THEN next + k - 1 ELSE None, next + k - 1)]

\* A request appends a task entry to the orchestrator's log.
LogTask ==
    /\ phase \in {"idle", "running"} /\ Len(olog) < MaxLen
    /\ phase' = "running"
    /\ olog' = Append(olog, Task(None, None, 1, "UserInputTool", Args({}, 0), nextId))
    /\ nextId' = nextId + 1
    /\ UNCHANGED << log, request, response, last, nreq, tasks, order,
                    log_start_index, co, ready, top, processing, executed,
                    stream, fired, event_queue, gen, emitted >>

\* run_single appends the task_debug entry of a task that made LLM calls.
LogDebug(reported) ==
    /\ phase \in {"idle", "running"} /\ Len(olog) < MaxLen
    /\ phase' = "running"
    /\ olog' = Append(olog, TaskDebugLogWith(1, LLMDebugs(nextId, reported)))
    /\ nextId' = nextId + Len(reported)
    /\ UNCHANGED << log, request, response, last, nreq, tasks, order,
                    log_start_index, co, ready, top, processing, executed,
                    stream, fired, event_queue, gen, emitted >>

\* process_conversation, lines 1046-1058: the log diff is the whole log of
\* the orchestrator (the request came with an empty log), and its entries
\* are the orchestrator's entries.
Extract ==
    /\ phase = "running"
    /\ phase' = "responded"
    /\ LET x == extract_llm_calls_from_log_diff(olog)
       IN /\ olog' = x.log_diff
          /\ response' = [kind |-> "chat", path |-> "orchestrator",
                          logDiff |-> x.log_diff, pending_tool_calls |-> <<>>,
                          completed_tool_calls |-> <<>>, error |-> FALSE,
                          llm_calls |-> x.llm_calls]
    /\ UNCHANGED << log, request, last, nreq, tasks, order,
                    log_start_index, co, ready, top, processing, executed, nextId,
                    stream, fired, event_queue, gen, emitted >>

ExtractNext ==
    \/ LogTask
    \/ \E reported \in CallIdChoices : LogDebug(reported)
    \/ Extract

ExtractSpec == Init /\ [][ExtractNext]_vars

\* ----------------------------- chat_thread_processor.py: threads of a turn
\* The turn of an analyst whose child batches hold answers to the user
\* (TalkToUser, which run_single completes at once), client tools and the
\* provider's web_search calls that older logs have as tasks; a client tool
\* or web_search task of the last batch may get its result.  The next turn
\* then starts: its analyst translates the turn before into thread_history.
BatchChoices ==
    { << "TalkToUser" >>, << "web_search" >>, << "ExecuteSQLQuery" >>,
      << "TalkToUser", "ExecuteSQLQuery" >>, << "ExecuteSQLQuery", "web_search" >>,
      << "ExecuteSQLQuery", "ExecuteSQLQuery" >> }

AnalystCall == AgentCall("AnalystAgent", Args({"goal"}, 0), None, NoError)

\* The root of the first turn.
TurnRoot == IF order = <<>> THEN None ELSE order[1]

\* The first turn starts: its root task is added.
Turn ==
    /\ phase = "idle" /\ order = <<>>
    /\ Commit(RunAddTasks(St, << AnalystCall >>, None, None).S)
    /\ UNCHANGED << log, phase, request, response, last, nreq, emitted >>

RECURSIVE CompleteTalk(_, _)
CompleteTalk(S, ids) ==
    IF ids = <<>> THEN S
    ELSE CompleteTalk(IF S.tasks[Head(ids)].agent = "TalkToUser"
                      THEN assign_result(S, Head(ids), "talk") ELSE S, Tail(ids))

\* The root dispatches a batch.
Batch(agents) ==
    /\ phase = "idle" /\ order # <<>>
    /\ Len(tasks[TurnRoot].child_unique_ids) < MaxBatches
    /\ LET r == RunAddTasks(St, [i \in 1..Len(agents) |->
                                    AgentCall(agents[i], Args({}, 0), None, NoError)],
                            TurnRoot, None)
       IN Commit(CompleteTalk(r.S, r.ids))
    /\ UNCHANGED << log, phase, request, response, last, nreq, emitted >>

\* A task of the last batch gets its result.
Finish(id) ==
    /\ phase = "idle" /\ order # <<>>
    /\ tasks[TurnRoot].child_unique_ids # <<>>
    /\ LET batch == tasks[TurnRoot].child_unique_ids[Len(tasks[TurnRoot].child_unique_ids)]
       IN \E k \in 1..Len(batch) : batch[k] = id
    /\ tasks[id].result = NoResult
    /\ Commit(assign_result(St, id, ContentFor(id)))
    /\ UNCHANGED << log, phase, request, response, last, nreq, emitted >>

\* The next turn: Orchestrator.run of a new root analyst, and its coroutine
\* up to the first allm_request.
NextTurn ==
    /\ phase = "idle" /\ order # <<>>
    /\ phase' = "running"
    /\ LET S1 == Orchestrator_run(St, None, << AnalystCall >>, None, TurnRoot, "")
       IN Commit(CoStep([S1 EXCEPT !.ready = Tail(@)], S1.ready[1].co, NoResponse))
    /\ UNCHANGED << log, request, response, last, nreq, emitted >>

ThreadNext ==
    \/ Turn
    \/ \E agents \in BatchChoices : Batch(agents)
    \/ \E id \in DOMAIN tasks : Finish(id)
    \/ NextTurn

ThreadSpec == Init /\ [][ThreadNext]_vars

\* ------------------------------ an analyst whose tool calls end at once
\* A conversation with one analyst.  The LLM calls ExecuteSQLQuery without
\* connection_id (run_single gives the task the missing-parameters result at
\* once, so that Agent.dispatch goes on to reduce in the same request), with
\* or without content, with an argument whose key starts with an
\* underscore, with arguments that are no JSON, or with all its parameters
\* (the tool then waits for the client).
AnalystRoot == [agent |-> "AnalystAgent", agent_args |-> Args({}, 0)]

TranslateResponses ==
    { LLMResponse("stop", TRUE, <<>>),
      LLMResponse("tool_calls", FALSE, << SqlCall >>),
      LLMResponse("tool_calls", FALSE, << ToolCall("ExecuteSQLQuery", Json({"query"})) >>),
      LLMResponse("tool_calls", TRUE, << ToolCall("ExecuteSQLQuery", Json({"query"})) >>),
      LLMResponse("tool_calls", FALSE,
                  << ToolCall("ExecuteSQLQuery", Json({"query", "_note"})) >>),
      LLMResponse("tool_calls", FALSE, << ToolCall("ExecuteSQLQuery", Garbage) >>) }

TranslateNext ==
    \/ \E ids \in SUBSET PendingIds(log) : Chat(TRUE, ids, AnalystRoot)
    \/ \E ids \in SUBSET PendingIds(log) : Chat(FALSE, ids, NoRoot)
    \/ RunStep(TranslateResponses, {})
    \/ GatherCallback
    \/ \E c \in DOMAIN co : LLMComplete(c)
    \/ Respond
    \/ Deliver

TranslateSpec == Init /\ [][TranslateNext]_vars

\* ------------------------------------------ an analyst in its LLM loop
\* One request to an analyst.  The LLM ends the answer (stop), calls a client
\* tool, sends content only, or sends nothing at all, both with a
\* finish_reason other than stop (length: the answer was cut off).
LoopResponses ==
    { LLMResponse("stop", TRUE, <<>>),
      LLMResponse("tool_calls", FALSE, << SqlCall >>),
      LLMResponse("length", TRUE, <<>>),
      LLMResponse("length", FALSE, <<>>) }

\* The event loop runs the coroutine at the head of the ready queue; the
\* analyst gets one of these answers, while the tasks they make (one for
\* each tool call, one TalkToUser for content) are within MaxTasks.
LoopStep(menu) ==
    /\ phase = "running" /\ ready # <<>>
    /\ ready[1].kind = "step" /\ ready[1].co # None
    /\ LET c == ready[1].co
           S == [St EXCEPT !.ready = Tail(@)]
       IN IF co[c].entry = "analyst_llm"
          THEN \E r \in menu :
                  /\ co[c].inst.llm_calls < MaxIter
                  /\ Len(order) + Len(r.tool_calls)
                        + (IF r.content THEN 1 ELSE 0) <= MaxTasks
                  /\ Commit(CoStep(S, c, r))
          ELSE Commit(CoStep(S, c, NoResponse))
    /\ UNCHANGED << log, phase, request, response, last, nreq, emitted >>

LoopNext ==
    \/ nreq = 0 /\ Chat(TRUE, {}, AnalystRoot)
    \/ LoopStep(LoopResponses)
    \/ GatherCallback
    \/ \E c \in DOMAIN co : LLMComplete(c)
    \/ Respond

LoopSpec == Init /\ [][LoopNext]_vars

\* ------------------------------------- tasks/llm/client.py: allm_request
\* The streamed answer of the provider.  An id is text: a prefix and the
\* rest; None and "" (both false in Python) are NoId and NoName.  The
\* arguments are text too: the sequence of its characters.
ServerPrefix == "srvtoolu_"

NoId == <<>>

NoName == ""

startswith(id, prefix) == id # NoId /\ id[1] = prefix

ToolCallDelta(index, id, name, arguments) ==
    [index |-> index, id |-> id, name |-> name, arguments |-> arguments]

\* The slot appended while len(accumulated_tool_calls) <= index.
EmptyToolCall ==
    [id |-> NoId, type |-> "function",
     function |-> [name |-> NoName, arguments |-> <<>>]]

\* Variant: the arguments of a delta replace the ones accumulated.
accumulate_tool_call_replacing(accumulated_tool_calls, d) ==
    LET n == IF Len(accumulated_tool_calls) <= d.index
             THEN d.index + 1 ELSE Len(accumulated_tool_calls)
        slots == [k \in 1..n |-> IF k <= Len(accumulated_tool_calls)
                                 THEN accumulated_tool_calls[k] ELSE EmptyToolCall]
        i == d.index + 1
        e1 == IF d.id # NoId THEN [slots[i] EXCEPT !.id = d.id] ELSE slots[i]
        e2 == IF d.name # NoName THEN [e1 EXCEPT !.function.name = d.name] ELSE e1
        e3 == IF d.arguments # <<>>
              THEN [e2 EXCEPT !.function.arguments = d.arguments] ELSE e2
    IN [slots EXCEPT ![i] = e3]

\* The body of `for tool_call_delta in delta.tool_calls`.
accumulate_tool_call(accumulated_tool_calls, d) ==
    LET n == IF Len(accumulated_tool_calls) <= d.index
             THEN d.index + 1 ELSE Len(accumulated_tool_calls)
        slots == [k \in 1..n |-> IF k <= Len(accumulated_tool_calls)
                                 THEN accumulated_tool_calls[k] ELSE EmptyToolCall]
        i == d.index + 1
        e1 == IF d.id # NoId THEN [slots[i] EXCEPT !.id = d.id] ELSE slots[i]
        e2 == IF d.name # NoName THEN [e1 EXCEPT !.function.name = d.name] ELSE e1
        e3 == IF d.arguments # <<>>
              THEN [e2 EXCEPT !.function.arguments = @ \o d.arguments] ELSE e2
    IN [slots EXCEPT ![i] = e3]

\* The tool call deltas of one chunk, in their order.
RECURSIVE accumulate_chunk(_, _)
accumulate_chunk(accumulated_tool_calls, tool_calls) ==
    IF tool_calls = <<>> THEN accumulated_tool_calls
    ELSE accumulate_chunk(accumulate_tool_call(accumulated_tool_calls, Head(tool_calls)),
                          Tail(tool_calls))

\* tc.get("id") and not tc["id"].startswith("srvtoolu_")
client_tool_calls(accumulated_tool_calls) ==
    SelectSeq(accumulated_tool_calls,
              LAMBDA tc : tc.id # NoId /\ ~startswith(tc.id, ServerPrefix))

\* The deltas of a provider, for the tool calls 0 and 1: the first delta of
\* a call has its id and name, later ones fragments of the arguments; an id
\* or a name may also come alone, come again, or come with a fragment.
DeltaChoices ==
    UNION {{ ToolCallDelta(i, << "call_", 1 >>, "ExecuteSQLQuery", <<>>),
             ToolCallDelta(i, << ServerPrefix, 1 >>, "web_search", <<>>),
             ToolCallDelta(i, << "call_", 2 >>, NoName, <<>>),
             ToolCallDelta(i, NoId, "web_search", <<>>),
             ToolCallDelta(i, << "call_", 1 >>, "ExecuteSQLQuery", << "{" >>),
             ToolCallDelta(i, NoId, NoName, << "{" >>),
             ToolCallDelta(i, NoId, NoName, << "}" >>) } : i \in {0, 1}}

\* delta.tool_calls of one chunk: one delta, or one for each call.
ChunkChoices ==
    {<< d >> : d \in DeltaChoices}
        \cup {<< d, e >> : d \in {x \in DeltaChoices : x.index = 0 /\ x.id = NoId},
                           e \in {x \in DeltaChoices : x.index = 1 /\ x.id = NoId}}

\* A chunk of the stream arrives: emitted holds the deltas the provider has
\* sent, request the accumulation of the allm_request in flight.
Chunk(tool_calls) ==
    /\ phase \in {"idle", "running"}
    /\ Len(emitted) + Len(tool_calls) <= MaxDeltas
    /\ phase' = "running"
    /\ emitted' = emitted \o tool_calls
    /\ request' = [kind |-> "llm",
                   accumulated_tool_calls |->
                      accumulate_chunk(IF phase = "idle" THEN <<>>
                                       ELSE request.accumulated_tool_calls, tool_calls)]
    /\ UNCHANGED << log, response, last, nreq, tasks, order, olog,
                    log_start_index, co, ready, top, processing, executed, nextId,
                    stream, fired, event_queue, gen >>

\* The stream has ended: allm_request builds its response.
EndOfStream ==
    /\ phase = "running"
    /\ phase' = "responded"
    /\ response' = [kind |-> "llm", role |-> "assistant",
                    tool_calls |-> client_tool_calls(request.accumulated_tool_calls)]
    /\ UNCHANGED << log, request, last, nreq, tasks, order, olog,
                    log_start_index, co, ready, top, processing, executed, nextId,
                    stream, fired, event_queue, gen, emitted >>

AssembleNext ==
    \/ \E tool_calls \in ChunkChoices : Chunk(tool_calls)
    \/ EndOfStream

AssembleSpec == Init /\ [][AssembleNext]_vars

\* ------------------------------------- the tools an analyst may call
\* One request to an analyst whose LLM calls tools of the client side with
\* arguments that pass or fail the validation in their run(), and the test
\* tool that answers on the server.
ToolResponses ==
    { LLMResponse("stop", TRUE, <<>>),
      LLMResponse("tool_calls", FALSE, << SqlCall >>),
      LLMResponse("tool_calls", FALSE, << ToolCall("Navigate", Json({})) >>),
      LLMResponse("tool_calls", FALSE, << ToolCall("Navigate", Json({"path"})) >>),
      LLMResponse("tool_calls", FALSE, << ToolCall("Navigate", Json({BadFileId})) >>),
      LLMResponse("tool_calls", FALSE,
                  << ToolCall("UpdateFileMetadata", Json({"file_id"})) >>),
      LLMResponse("tool_calls", FALSE,
                  << ToolCall("UpdateFileMetadata", Json({"file_id", "name"})) >>),
      LLMResponse("tool_calls", FALSE, << ToolCall("SimpleTool", Json({"value"})) >>),
      LLMResponse("tool_calls", FALSE, << ToolCall("Navigate", Json({})), SqlCall >>) }

ToolNext ==
    \/ nreq = 0 /\ Chat(TRUE, {}, AnalystRoot)
    \/ RunStep(ToolResponses, {})
    \/ GatherCallback
    \/ \E c \in DOMAIN co : LLMComplete(c)
    \/ Respond

ToolSpec == Init /\ [][ToolNext]_vars

\* ----------------------------------- an LLM that gives a call's id again
\* A conversation with one analyst whose provider may give a tool call the
\* id of an earlier call (tool_call["id"] is taken as it comes).  The call
\* with that id is one of SimpleTool, which returns at once, so that the
\* analyst asks the LLM again in the same request.
ProviderId == 90

ProviderCall(name, arguments) == [id |-> ProviderId, name |-> name, arguments |-> arguments]

IdResponses ==
    { LLMResponse("stop", TRUE, <<>>),
      LLMResponse("tool_calls", FALSE, << SqlCall >>),
      LLMResponse("tool_calls", FALSE, << ToolCall("SimpleTool", Json({"value"})) >>),
      LLMResponse("tool_calls", FALSE, << ProviderCall("SimpleTool", Json({"value"})) >>) }

\* The event loop runs the coroutine at the head of the ready queue; the
\* analyst gets one of these answers, while the task entries of the log are
\* within MaxTasks.
IdStep(menu) ==
    /\ phase = "running" /\ ready # <<>>
    /\ ready[1].kind = "step" /\ ready[1].co # None
    /\ LET c == ready[1].co
           S == [St EXCEPT !.ready = Tail(@)]
       IN IF co[c].entry = "analyst_llm"
          THEN \E r \in menu :
                  /\ Len(TaskEntries(olog)) + Len(r.tool_calls) <= MaxTasks
                  /\ Commit(CoStep(S, c, r))
          ELSE Commit(CoStep(S, c, NoResponse))
    /\ UNCHANGED << log, phase, request, response, last, nreq, emitted >>

IdNext ==
    \/ \E ids \in SUBSET PendingIds(log) : Chat(TRUE, ids, AnalystRoot)
    \/ \E ids \in SUBSET PendingIds(log) : Chat(FALSE, ids, NoRoot)
    \/ IdStep(IdResponses)
    \/ GatherCallback
    \/ \E c \in DOMAIN co : LLMComplete(c)
    \/ Respond
    \/ Deliver

IdSpec == Init /\ [][IdNext]_vars

\* ============================================================ properties
\* Notions of the specification, stated on a log without the code's scans.
HasResult(l, id) ==
    \E i \in 1..Len(l) : l[i].type_ = "task_result" /\ l[i].task_unique_id = id

LatestRootIndex(l) ==
    LET roots == {i \in 1..Len(l) : l[i].type_ = "task" /\ l[i].parent_unique_id = None}
    IN IF roots = {} THEN 0 ELSE CHOOSE i \in roots : \A j \in roots : j <= i

\* Pending leaves of the latest root's turn: tasks entered from the latest
\* root on that have no task_result and no child without a task_result.
PendingLeaves(l) ==
    IF LatestRootIndex(l) = 0 THEN {}
    ELSE {l[i].unique_id : i \in
            {i \in LatestRootIndex(l)..Len(l) :
                /\ l[i].type_ = "task"
                /\ ~HasResult(l, l[i].unique_id)
                /\ \A j \in 1..Len(l) :
                      (l[j].type_ = "task" /\ l[j].parent_unique_id = l[i].unique_id)
                         => HasResult(l, l[j].unique_id)}}

ToolCallIds(calls) == {calls[i].id : i \in 1..Len(calls)}

\* A response that process_conversation returned (chat() builds another one
\* when process_conversation raised).
Returned == phase = "responded" /\ response.kind = "chat" /\ ~response.error

\* Entries of a log.
ResultIndices(l, id) ==
    {i \in 1..Len(l) : l[i].type_ = "task_result" /\ l[i].task_unique_id = id}

TaskIds(l) == {l[i].unique_id : i \in {i \in 1..Len(l) : l[i].type_ = "task"}}

\* The log the client holds once it has appended the logDiff of the response.
ResultingLog == log \o response.logDiff

\* A request is being processed or has been answered.
InRequest == phase \in {"running", "responded"} /\ request.kind = "chat"

\* ----------------------------------------------------------------- C1
\* C1: for every chat request the returned logDiff is the suffix of the
\* final log from len(input log) on, and the first len(input log) entries
\* of the final log are the entries of the input log, unchanged.
C1_LogDiffIsSuffix ==
    /\ InRequest =>
          /\ Len(olog) >= Len(log)
          /\ SubSeq(olog, 1, Len(log)) = log
    /\ (phase = "responded" /\ response.kind = "chat") =>
          response.logDiff = SubSeq(olog, Len(log) + 1, Len(olog))

\* The same for the responses that process_conversation returned.
C1_Returned ==
    /\ InRequest =>
          /\ Len(olog) >= Len(log)
          /\ SubSeq(olog, 1, Len(log)) = log
    /\ Returned => response.logDiff = SubSeq(olog, Len(log) + 1, Len(olog))

\* ----------------------------------------------------------------- C2
\* C2: at response time of a chat request pending_tool_calls holds exactly
\* one entry per pending leaf of the resulting log: every listed id is a
\* pending leaf and every pending leaf of the latest root's turn is listed.
C2_PendingAreLeaves ==
    Returned =>
        /\ ToolCallIds(response.pending_tool_calls) = PendingLeaves(ResultingLog)
        /\ Cardinality(ToolCallIds(response.pending_tool_calls))
              = Len(response.pending_tool_calls)

\* The same after run/resume only.
C2_AfterOrchestrator ==
    (Returned /\ response.path # "short") =>
        /\ ToolCallIds(response.pending_tool_calls) = PendingLeaves(ResultingLog)
        /\ Cardinality(ToolCallIds(response.pending_tool_calls))
              = Len(response.pending_tool_calls)

\* ----------------------------------------------------------------- C3
\* C3: no task has more than one task_result entry, neither among the
\* entries one request appends nor in the log the client accumulates.
C3_OneResultPerTask ==
    /\ \A id \in TaskIds(olog) :
          Cardinality({i \in ResultIndices(olog, id) : i > Len(log)}) <= 1
    /\ \A id \in TaskIds(log) : Cardinality(ResultIndices(log, id)) <= 1

\* Within one request only.
C3_WithinRequest ==
    \A id \in TaskIds(olog) :
        Cardinality({i \in ResultIndices(olog, id) : i > Len(log)}) <= 1

\* ----------------------------------------------------------------- C4
\* C4: in every reachable state a task has a non-null result in the
\* compressed state, and is left out of the pending set by the HTTP layer's
\* scan of the log, if and only if the log holds a task_result entry for it.
C4_CompletedIffResult ==
    \A id \in DOMAIN tasks :
        /\ (tasks[id].result # NoResult) <=> HasResult(olog, id)
        /\ (tasks[id].result # NoResult) => id \notin PendingIds(olog)

\* ------------------------------------------------------- C5, C6 and C7
\* The ids the request completes, and the content it gives for one of them.
ReqIds ==
    {request.completed_tool_calls[i].tool_call_id :
        i \in 1..Len(request.completed_tool_calls)}

Supplied(id) ==
    request.completed_tool_calls[
        CHOOSE i \in 1..Len(request.completed_tool_calls) :
            request.completed_tool_calls[i].tool_call_id = id].content

Matched == ReqIds \cap PendingLeaves(log)

Executed == {executed[i] : i \in 1..Len(executed)}

Children(l, id) ==
    {l[i].unique_id : i \in {i \in 1..Len(l) :
        l[i].type_ = "task" /\ l[i].parent_unique_id = id}}

\* A request without user_message that completes some, not all, of the
\* pending leaves of its log, answered.
PartialCompletion ==
    /\ Returned /\ ~request.user_message
    /\ Matched # {} /\ Matched # PendingLeaves(log)

\* C5: such a request appends exactly one task_result per matched leaf, with
\* the supplied content, and nothing for an id that matches no pending leaf;
\* no agent is instantiated or run; pending_tool_calls lists exactly the
\* unmatched leaves and completed_tool_calls exactly the matched ones with
\* their content.
C5_PartialCompletion ==
    PartialCompletion =>
        /\ Len(response.logDiff) = Cardinality(Matched)
        /\ \A id \in Matched : \E i \in 1..Len(response.logDiff) :
              response.logDiff[i] = TaskResult(id, Supplied(id))
        /\ Executed = {} /\ DOMAIN co = {}
        /\ ToolCallIds(response.pending_tool_calls) = PendingLeaves(log) \ Matched
        /\ Len(response.pending_tool_calls) = Cardinality(PendingLeaves(log) \ Matched)
        /\ Len(response.completed_tool_calls) = Cardinality(Matched)
        /\ \A id \in Matched : \E i \in 1..Len(response.completed_tool_calls) :
              /\ response.completed_tool_calls[i].tool_call_id = id
              /\ response.completed_tool_calls[i].content = Supplied(id)

C5_Witness ==
    /\ PartialCompletion /\ WrongId \in ReqIds
    /\ Len(response.logDiff) = 1 /\ Len(response.pending_tool_calls) = 1

\* A request without user_message that completes no pending leaf of a log
\* that has one, answered.
NoOpRequest ==
    /\ Returned /\ ~request.user_message
    /\ PendingLeaves(log) # {} /\ Matched = {}

\* C6: such a request changes nothing: logDiff and completed_tool_calls are
\* empty, no agent is run, and pending_tool_calls has the ids that the
\* response which produced the log had.
C6_NoOp ==
    NoOpRequest =>
        /\ response.logDiff = <<>> /\ response.completed_tool_calls = <<>>
        /\ Executed = {} /\ DOMAIN co = {}
        /\ last.kind = "chat" =>
              ToolCallIds(response.pending_tool_calls) = ToolCallIds(last.pending_tool_calls)

\* The same, but for the comparison with the response before.
C6_NothingAppended ==
    NoOpRequest =>
        /\ response.logDiff = <<>> /\ response.completed_tool_calls = <<>>
        /\ Executed = {} /\ DOMAIN co = {}
        /\ ToolCallIds(response.pending_tool_calls) = PendingLeaves(log)

\* A request without user_message that completes every pending leaf of its
\* log, answered.
AllCompleted ==
    /\ phase = "responded" /\ request.kind = "chat" /\ ~request.user_message
    /\ PendingLeaves(log) # {} /\ PendingLeaves(log) \subseteq ReqIds

\* The parents that the completions of this request leave without a child
\* lacking a result.
ReadyParents ==
    {p \in TaskIds(log) :
        /\ ~HasResult(log, p)
        /\ Children(log, p) \cap Matched # {}
        /\ \A c \in Children(log, p) : HasResult(log, c) \/ c \in Matched}

\* The tasks whose run() returned in this request, each with the index of
\* the task_result appended for it.
Returns ==
    {<<p, i>> \in Executed \X (1..Len(olog)) :
        i > Len(log) /\ i \in ResultIndices(olog, p)}

\* The run() of the latest root returned in this request.
RootReturned ==
    LatestRootIndex(olog) > 0
       /\ \E r \in Returns : r[1] = olog[LatestRootIndex(olog)].unique_id

C7_ResumeRuns == AllCompleted => response.path # "short" /\ ReadyParents \subseteq Executed

C7_ResultAfterChildren ==
    AllCompleted => \A r \in Returns : \A c \in Children(olog, r[1]) :
                        \E j \in ResultIndices(olog, c) : j < r[2]

C7_NothingPending ==
    (AllCompleted /\ ~response.error /\ RootReturned) => response.pending_tool_calls = <<>>

C7_Completions ==
    (AllCompleted /\ ~response.error /\ RootReturned) =>
        /\ \A id \in Matched : \E i \in 1..Len(response.completed_tool_calls) :
              /\ response.completed_tool_calls[i].tool_call_id = id
              /\ response.completed_tool_calls[i].content = Supplied(id)
        /\ \A r \in Returns : \E i \in 1..Len(response.completed_tool_calls) :
              /\ response.completed_tool_calls[i].tool_call_id = r[1]
              /\ response.completed_tool_calls[i].content = olog[r[2]].result
              /\ response.completed_tool_calls[i].name = "MultiToolAgent"
                    => response.completed_tool_calls[i].content = AllToolsCompleted

\* C7: when a request without user_message completes all remaining pending
\* leaves, resume() runs in that request: every parent whose children are
\* now all completed is reduced and run; when its run() returns its
\* task_result comes after those of its children, up to the root; the
\* response then has no pending_tool_calls, and completed_tool_calls holds
\* the children's completions and the parents' (for MultiToolAgent the
\* content "All tools completed").
C7_FinishTurn ==
    /\ C7_ResumeRuns /\ C7_ResultAfterChildren /\ C7_NothingPending /\ C7_Completions

\* ----------------------------------------------------------------- C8
\* The task entries of a log that carry a run_id.
RunEntries(l, run_id) ==
    {i \in 1..Len(l) : l[i].type_ = "task" /\ l[i].run_id = run_id}

SeqSet(sq) == {sq[i] : i \in 1..Len(sq)}

\* The batch of an Orchestrator.run that parent awaits: its entries are new,
\* as many as its calls, alone with their run_id, children of the parent.
IsBatch(batch, parent) ==
    LET run_id == tasks[batch[1]].run_id
    IN /\ Cardinality(RunEntries(olog, run_id)) = Len(batch)
       /\ {olog[i].unique_id : i \in RunEntries(olog, run_id)} = SeqSet(batch)
       /\ \A i \in RunEntries(olog, run_id) :
             i > Len(log) /\ olog[i].parent_unique_id = parent
       /\ run_id \notin TaskIds(olog)

C8_Batches ==
    /\ \A c \in DOMAIN co : co[c].pc = "gather" => IsBatch(co[c].batch, co[c].task)
    /\ (InRequest /\ request.user_message) => IsBatch(top.batch, None)

\* The coroutines of run_single that have ended.
RunSingleDone == {c \in DOMAIN co : co[c].mode = "run" /\ co[c].pc = "done"}

\* What the run() of an agent class returns.
ReturnValues(agent) ==
    CASE agent = "MultiToolAgent" -> {AllToolsCompleted, "thread length"}
      [] agent = "AnalystAgent" -> {"analyst result"}
      [] agent = "ReportAgent" -> {NoResult, "report", "report failed"}
      [] agent = "TalkToUser" -> {"talk"}
      [] OTHER -> {}

NewResults(id) == {i \in ResultIndices(olog, id) : i > Len(log)}

C8_Outcomes ==
    \A c \in RunSingleDone :
        /\ (c \in Executed /\ co[c].outcome = "ok") =>
              /\ Cardinality(NewResults(c)) = 1
              /\ \A i \in NewResults(c) :
                    olog[i].result = tasks[c].result
                       /\ olog[i].result \in ReturnValues(tasks[c].agent)
        /\ co[c].outcome = "user" =>
              /\ NewResults(c) = {}
              /\ (Returned /\ tasks[c].agent \in ClientTools) =>
                    c \in ToolCallIds(response.pending_tool_calls)

NewRoots == {i \in (Len(log) + 1)..Len(olog) :
                olog[i].type_ = "task" /\ olog[i].parent_unique_id = None}

LatestRootId(l) == IF LatestRootIndex(l) = 0 THEN None ELSE l[LatestRootIndex(l)].unique_id

\* C9: a request with user_message appends exactly one root task, whose
\* previous_unique_id is the unique_id of the latest root of the input log
\* (null when it has none); a request without user_message appends none.
C9_OneRootPerMessage ==
    /\ InRequest =>
          /\ Cardinality(NewRoots) = IF request.user_message THEN 1 ELSE 0
          /\ \A i \in NewRoots : olog[i].previous_unique_id = LatestRootId(log)
    /\ Returned =>
          Len(SelectSeq(response.logDiff,
                        LAMBDA e : e.type_ = "task" /\ e.parent_unique_id = None))
             = IF request.user_message THEN 1 ELSE 0

C9_Witness ==
    /\ Returned /\ request.user_message /\ LatestRootIndex(log) > 0
    /\ \E i \in 1..Len(response.logDiff) :
          /\ response.logDiff[i].type_ = "task"
          /\ response.logDiff[i].parent_unique_id = None
          /\ response.logDiff[i].previous_unique_id = LatestRootId(log)
          /\ response.logDiff[i].previous_unique_id # log[1].unique_id

\* ---------------------------------------------------------------- C10
Closed == phase = "responded" /\ response.kind = "close"

\* C10: chat/close returns one task_result with result "<Interrupted />" per
\* pending leaf of the latest root's turn and no other entry: an empty
\* logDiff when there is no pending leaf.
C10_CloseInterrupts ==
    Closed =>
        /\ Len(response.logDiff) = Cardinality(PendingLeaves(log))
        /\ \A id \in PendingLeaves(log) : \E i \in 1..Len(response.logDiff) :
              response.logDiff[i] = TaskResult(id, Interrupted)
        /\ PendingLeaves(log) = {} => response.logDiff = <<>>

C10_Witness == Closed /\ Cardinality(PendingLeaves(log)) = 2 /\ Len(response.logDiff) = 2

\* ---------------------------------------------------------------- C11
\* A request with user_message on a log whose latest root has pending leaves.
StartOverPending == InRequest /\ request.user_message /\ PendingLeaves(log) # {}

\* C11: such a request gives every pending leaf exactly one task_result, the
\* supplied content when its id is in completed_tool_calls and
\* "<Interrupted />" otherwise, all of them before the task entry of the new
\* root, and the orchestrator is run: the short-circuit is never taken.
C11_StartInterrupts ==
    StartOverPending =>
        /\ \A id \in PendingLeaves(log) :
              /\ Cardinality(NewResults(id)) = 1
              /\ \A i \in NewResults(id) :
                    /\ olog[i].result = IF id \in ReqIds THEN Supplied(id) ELSE Interrupted
                    /\ \A r \in NewRoots : i < r
        /\ Cardinality(NewRoots) = 1
        /\ \A r \in NewRoots : r = Len(log) + Cardinality(PendingLeaves(log)) + 1
        /\ phase = "responded" => response.path \in {"run", "error"}
        /\ Returned =>
              SubSeq(response.logDiff, 1, Cardinality(PendingLeaves(log)) + 1)
                 = SubSeq(olog, Len(log) + 1, Len(log) + Cardinality(PendingLeaves(log)) + 1)

\* One of two pending leaves completed by the request, the other interrupted.
C11_Witness ==
    /\ StartOverPending /\ Returned
    /\ Cardinality(PendingLeaves(log)) = 2 /\ Cardinality(Matched) = 1
    /\ \E i \in 1..2 : response.logDiff[i].result = Interrupted
    /\ response.logDiff[3].type_ = "task"

\* ---------------------------------------------------------------- C12
\* The points of an agent's run() that follow an Agent.dispatch.
DispatchEntries ==
    {"report_dispatch", "analyst_dispatch", "multi_dispatch_1", "multi_dispatch_2"}

\* The batches whose gather has returned to Orchestrator.run/resume, which
\* is about to call _handle_exceptions on the outcomes (or has, at top level).
Woken ==
    {co[c].batch : c \in {c \in DOMAIN co :
        co[c].pc = "ready" /\ co[c].entry \in DispatchEntries}}
    \cup (IF \/ phase = "running" /\ \E i \in 1..Len(ready) : ready[i] = StepItem(None)
             \/ phase = "responded" /\ response.kind = "chat"
                   /\ response.path \in {"run", "resume", "error"}
          THEN {top.batch} ELSE {})

NoDup(sq) == \A i, j \in 1..Len(sq) : sq[i] = sq[j] => i = j

\* Coroutine x was started by a member of the batch, or below one.
RECURSIVE InsideCo(_, _)
InsideCo(x, batch) ==
    \/ x \in SeqSet(batch)
    \/ co[x].owner # None /\ InsideCo(co[x].owner, batch)

\* The coroutines in which the run() of a client tool raised UserInput.
SuspendedCo ==
    {x \in DOMAIN co :
        /\ co[x].pc = "done" /\ co[x].outcome = "user"
        /\ co[x].task \in Executed /\ tasks[co[x].task].agent \in ClientTools}

\* Some run_single started beside a (same Orchestrator.run) raised an
\* exception that is no UserInput.
ErrorBeside(a) ==
    \E b \in DOMAIN co :
        /\ co[b].mode = "run" /\ co[b].owner = co[a].owner
        /\ tasks[b].run_id = tasks[a].run_id
        /\ co[b].pc = "done" /\ co[b].outcome = "error"

\* Between x and the batch, a nested Orchestrator.run raised another
\* exception in place of the UserInput it had collected.
Displaced(x, batch) ==
    \E a \in DOMAIN co :
        /\ a \notin SeqSet(batch) /\ InsideCo(a, batch) /\ InsideCo(x, <<a>>)
        /\ ErrorBeside(a)

ErrSiblings(batch) == {i \in 1..Len(batch) : co[batch[i]].outcome = "error"}

\* What Orchestrator.run/resume raises for a batch, given the set of
\* suspended tasks its UserInputException has to name.
Raises(batch, suspended) ==
    LET h == _handle_exceptions(BatchResults(St, batch))
    IN /\ \A i \in 1..Len(batch) : co[batch[i]].pc = "done"
       /\ IF ErrSiblings(batch) = {}
          THEN /\ h.outcome = IF suspended = {} THEN "ok" ELSE "user"
               /\ SeqSet(h.ids) = suspended /\ NoDup(h.ids)
          ELSE /\ h.outcome = "error"
               /\ \E i \in ErrSiblings(batch) : h.ids = co[batch[i]].ids
               /\ Len(h.ids) = 1

C12_ErrorWitness ==
    \E batch \in Woken :
        /\ ErrSiblings(batch) # {}
        /\ \E i \in 1..Len(batch) : co[batch[i]].outcome = "user"

\* ---------------------------------------------------------------- C13
\* The parameters an agent's constructor requires.
Required(agent) == FieldRequired(agent) \cup PlainRequired(agent)

\* Task t of this request was made from a call to a registered agent that
\* omits one of these parameters, and its run_single has ended.
Omits(t, required) ==
    /\ t \in RunSingleDone
    /\ tasks[t].agent \in Registry
    /\ required \ tasks[t].args.params # {}
    /\ tasks[t].args.params \cap {"_unique_id", "orchestrator", "_original_args"} = {}

MissingParameterRecorded(t) ==
    /\ \E i \in 1..Len(olog) : olog[i].type_ = "task" /\ olog[i].unique_id = t
    /\ Cardinality(NewResults(t)) = 1
    /\ \A i \in NewResults(t) : olog[i].result = MissingParams
    /\ t \notin Executed
    /\ Children(olog, t) = {}
    /\ co[t].outcome = "ok"

\* C13: an agent call that omits a required parameter of its agent still
\* gets its task entry and one task_result "<ERROR>Required parameters
\* missing: ...</ERROR>"; the agent is never instantiated, no child task is
\* dispatched and the request does not fail, for every required parameter.
C13_MissingParameter ==
    \A t \in DOMAIN co : Omits(t, Required(tasks[t].agent)) => MissingParameterRecorded(t)

\* The same for the parameters declared with Field(...).
C13_FieldParameters ==
    \A t \in DOMAIN co :
        Omits(t, FieldRequired(tasks[t].agent)) => MissingParameterRecorded(t)

\* ---------------------------------------------------------------- C14
\* The tasks created in this request.
NewTasks == {olog[i].unique_id : i \in {i \in (Len(log) + 1)..Len(olog) :
                                           olog[i].type_ = "task"}}

\* Those made from a tool call whose arguments are no JSON: their args are
\* {_original_args: raw string}.
FromInvalidJson == {t \in NewTasks : tasks[t].args.params = {"_original_args"}}

\* The conversion of such a tool call.
InvalidJsonCall(name, id) ==
    tool_calls_to_agent_calls(<< [id |-> id, name |-> name, arguments |-> Garbage] >>, FALSE)
       = << AgentCall(name, Args({"_original_args"}, 0), id, InvalidJson) >>

C14_NeverExecuted ==
    /\ \A t \in FromInvalidJson :
          /\ tasks[t].result = InvalidJson
          /\ t \notin Executed /\ Children(olog, t) = {}
          /\ t \in DOMAIN co => co[t].outcome \in {"none", "ok"}
          /\ InvalidJsonCall(tasks[t].agent, t)
    /\ \A t \in NewTasks : tasks[t].result = InvalidJson => t \in FromInvalidJson

\* C14: a tool call whose arguments are no JSON becomes an AgentCall with
\* error "Invalid JSON in arguments" and args {_original_args: raw string};
\* its task is created completed, with that error as its recorded result,
\* and its agent is never instantiated, reduced or run.
C14_InvalidJson ==
    /\ C14_NeverExecuted
    /\ \A t \in FromInvalidJson :
          /\ \E i \in NewResults(t) : olog[i].result = InvalidJson
          /\ Returned => t \notin ToolCallIds(response.pending_tool_calls)

\* ---------------------------------------------------------------- C15
\* The coroutines in which the run() of an agent raised an exception that
\* is no UserInput.
RunRaised ==
    {c \in DOMAIN co :
        co[c].pc = "done" /\ co[c].outcome = "error" /\ co[c].task \in Executed}

\* An answered chat request in which that happened.
RunFailed == phase = "responded" /\ response.kind = "chat" /\ RunRaised # {}

\* C15: when the run() of an agent raises an exception other than UserInput
\* the whole request fails: the exception leaves Orchestrator.run/resume,
\* nothing is retried, and the response of /chat has an error and the
\* partial logDiff: the entries appended before the failure.
C15_RequestFails ==
    /\ NoDup(executed)
    /\ RunFailed =>
          /\ response.error
          /\ _handle_exceptions(BatchResults(St, top.batch)).outcome = "error"
          /\ response.logDiff = SubSeq(olog, Len(log) + 1, Len(olog))

\* The same without the logDiff, for an exception that reaches
\* Orchestrator.run/resume of the request.
C15_Propagates ==
    /\ NoDup(executed)
    /\ (RunFailed /\ \E c \in RunRaised : co[c].owner = None) =>
          /\ response.error
          /\ _handle_exceptions(BatchResults(St, top.batch)).outcome = "error"

\* ---------------------------------------------------------------- C16
\* The place of a task in the order of execution of this request.
ExecutedAt(t) == CHOOSE i \in 1..Len(executed) : executed[i] = t

\* The children of p whose run() returned in this request.
ReturnedChildren(p) == {c \in Children(log, p) : \E r \in Returns : r[1] = c}

RunSingles == {t \in DOMAIN co : co[t].mode = "run"}

\* The batch of such a task: the tasks whose entries carry its run_id.
BatchMembers(t) == {olog[i].unique_id : i \in RunEntries(olog, tasks[t].run_id)}

\* The entries a task causes: the task entries of its children, its own
\* task_result and task_debug entries.
EntriesOf(t) ==
    {j \in 1..Len(olog) :
        IF olog[j].type_ = "task" THEN olog[j].parent_unique_id = t
        ELSE olog[j].task_unique_id = t}

\* C17: in Orchestrator.run the task entries of all calls of a batch are in
\* the log, and the batch is in the parent's child_unique_ids, before the
\* reduce or run of any task of the batch starts: every entry a member of
\* the batch creates comes after all task entries of the batch.
C17_BatchBeforeChildren ==
    \A t \in RunSingles :
        LET parent == tasks[t].parent_unique_id
        IN /\ t \in BatchMembers(t)
           /\ BatchMembers(t) = {b \in RunSingles : /\ co[b].owner = co[t].owner
                                                     /\ tasks[b].run_id = tasks[t].run_id}
           /\ parent # None =>
                 \E g \in 1..Len(tasks[parent].child_unique_ids) :
                    /\ SeqSet(tasks[parent].child_unique_ids[g]) = BatchMembers(t)
                    /\ Len(tasks[parent].child_unique_ids[g]) = Cardinality(BatchMembers(t))
           /\ \A j \in EntriesOf(t) : \A i \in RunEntries(olog, tasks[t].run_id) : i < j

\* Both members of a batch of two have created a child.
C17_Witness ==
    \E t \in RunSingles :
        /\ Cardinality(BatchMembers(t)) = 2
        /\ \A b \in BatchMembers(t) : Children(olog, b) # {}

\* ---------------------------------------------------------------- C19
\* The coroutines inside the run() of an agent: waiting for the LLM or for
\* the batch they dispatched.
InsideRun ==
    {c \in DOMAIN co : co[c].pc \in {"llm", "gather"} /\ co[c].task \in Executed}

\* The child batches of its task that the instance of c was reduced with
\* last: all of them, but for a batch whose dispatch has not returned yet.
ReducedBatches(c) ==
    LET groups == tasks[co[c].task].child_unique_ids
    IN IF co[c].pc = "gather" THEN SubSeq(groups, 1, Len(groups) - 1) ELSE groups

\* Some child of these batches has a result that is neither null nor empty.
SomeResult(groups) ==
    \E g \in 1..Len(groups) : \E k \in 1..Len(groups[g]) :
        tasks[groups[g][k]].result \notin {NoResult, ""}

\* C19: whenever the orchestrator executes a task, in run or in resume, the
\* instance's reduce has been called with the complete current list of child
\* batches of the task before its run() is called, and run() is never called
\* without that reduce: the instance inside run() holds what reduce computes
\* from all the batches.
C19_ReduceBeforeRun ==
    \A c \in InsideRun :
        LET agent == tasks[co[c].task].agent
            groups == ReducedBatches(c)
        IN /\ co[c].pc = "gather" =>
                 /\ tasks[co[c].task].child_unique_ids # <<>>
                 /\ tasks[co[c].task].child_unique_ids[Len(groups) + 1] = co[c].batch
           /\ agent = "AnalystAgent" => co[c].inst.child_count = Len(groups)
           /\ agent = "MultiToolAgent" => co[c].inst.child_count = FlatCount(groups)
           /\ agent = "ReportAgent" => co[c].inst.child_results = SomeResult(groups)
           /\ agent \in {"AnalystAgent", "MultiToolAgent", "ReportAgent"}

\* An analyst resumed over a batch of children it had dispatched in an
\* earlier request: reduced with that batch, then run.
C19_Witness ==
    \E c \in InsideRun :
        /\ co[c].mode = "resume" /\ co[c].pc = "llm"
        /\ tasks[co[c].task].agent = "AnalystAgent"
        /\ co[c].inst.child_count = 1

\* ---------------------------------------------------------------- C18
\* The calls of a callback in this request, by their place in the order of
\* all calls.
Calls(type) == {i \in 1..Len(fired) : fired[i].type = type}

CallsFor(type, id) == {i \in Calls(type) : fired[i].id = id}

\* The ids of the task entries the orchestrator appended in this request,
\* in the order of the log.
NewTaskSeq ==
    LET new == SelectSeq(SubSeq(olog, Len(log) + 1, Len(olog)),
                         LAMBDA e : e.type_ = "task")
    IN [i \in 1..Len(new) |-> new[i].unique_id]

CreatedSeq ==
    LET created == SelectSeq(fired, LAMBDA e : e.type = "ToolCreated")
    IN [i \in 1..Len(created) |-> created[i].id]

\* C18: in every request on_tool_completed fires for a task created in the
\* request only after on_tool_created fired for it; on_tool_created fires
\* exactly once per task entry the orchestrator appends; on_tool_completed
\* fires at most once per task.
C18_CallbackOrder ==
    stream =>
        /\ CreatedSeq = NewTaskSeq
        /\ \A j \in Calls("ToolCompleted") :
              /\ Cardinality(CallsFor("ToolCompleted", fired[j].id)) = 1
              /\ fired[j].id \in NewTasks =>
                    \E i \in CallsFor("ToolCreated", fired[j].id) : i < j
              /\ fired[j].id \in NewTasks \cup TaskIds(log)

\* A task created and completed in the request, and the completion of a
\* task of an earlier request.
C18_Witness ==
    /\ stream /\ phase = "responded"
    /\ \E t \in NewTasks : \E i \in CallsFor("ToolCreated", t) :
          \E j \in CallsFor("ToolCompleted", t) : i < j
    /\ \E p \in TaskIds(log) : CallsFor("ToolCompleted", p) # {}

\* ---------------------------------------------------------------- C20
Terminal == {"done", "error"}

\* The streaming events among the SSE events emitted so far.
Streamed == SelectSeq(emitted, LAMBDA e : e.type \notin Terminal)

\* The asyncio tasks of event_queue.put that have not run yet.
PendingPuts == {i \in 1..Len(ready) : ready[i].kind = "put"}

\* C20: on /api/chat/stream every streaming event a callback made during the
\* request is emitted before the terminal event, in the order the callbacks
\* fired; exactly one terminal event (done, or error) is emitted, last: no
\* event is lost or emitted after it.
C20_StreamOrder ==
    /\ Streamed = SubSeq(fired, 1, Len(Streamed))
    /\ \A i \in 1..Len(emitted) :
          emitted[i].type \in Terminal => i = Len(emitted) /\ gen = "finished"
    /\ gen = "finished" =>
          /\ phase = "responded"
          /\ emitted = Append(fired,
                Event(IF response.error THEN "error" ELSE "done", None))
          /\ event_queue = <<>> /\ PendingPuts = {}
    /\ gen = "waiting" => event_queue = <<>>
    /\ (stream /\ phase = "responded" /\ gen # "finished") =>
          /\ \E i \in 1..Len(event_queue) : event_queue[i].type \in Terminal
          /\ gen \in {"ready", "sending"}
          /\ gen = "ready" => \E i \in 1..Len(ready) : ready[i] = GenItem
    /\ ~stream => emitted = <<>> /\ fired = <<>>

\* A stream that ended with done after events of the three callbacks.
C20_Witness ==
    /\ gen = "finished" /\ ~response.error
    /\ \A type \in {"StreamedContent", "ToolCreated", "ToolCompleted"} :
          \E i \in 1..Len(emitted) : emitted[i].type = type
    /\ Len(emitted) >= 5

\* ---------------------------------------------------------------- C21
\* The server's state without what the streaming callbacks add: no event
\* queue, no generator, no asyncio task of an event_queue.put.  It is the
\* state of the same request on /api/chat.
Plain(S) ==
    [S EXCEPT !.stream = FALSE, !.fired = <<>>, !.event_queue = <<>>, !.gen = "none",
              !.ready = SelectSeq(@, LAMBDA x : x.kind \in {"step", "done_callback"})]

\* The state of /api/chat after the event loop took the head of its queue.
PlainTail == [Plain(St) EXCEPT !.ready = Tail(@)]

\* A request on /api/chat/stream starts as the same request on /api/chat.
SameStart ==
    \A user_message \in BOOLEAN, root \in StreamRoots \cup {NoRoot},
       ids \in SUBSET PendingIds(log) :
        ChatStream(user_message, ids, root) =>
            LET o == process_conversation(FALSE, log, nextId, user_message, ids, root)
            IN /\ Plain(St') = o.S
               /\ phase' = o.phase
               /\ response' = o.response

\* A step of a coroutine, a done callback, an answer of the LLM: with the
\* same answer it is the step /api/chat takes.
SameStep ==
    /\ RunStep(LLMResponses, ReportLLMResponses) =>
          \E r \in LLMResponses \cup {NoResponse} :
              /\ St' = CoStep([St EXCEPT !.ready = Tail(@)], ready[1].co, r)
              /\ Plain(St') = CoStep(PlainTail, ready[1].co, r)
    /\ GatherCallback => Plain(St') = DoneCallback(PlainTail, ready[1].co)
    /\ \A c \in DOMAIN co :
          LLMComplete(c) =>
              Plain(St') = [Plain(St) EXCEPT !.co[c].pc = "ready",
                                             !.ready = Append(@, StepItem(c))]

\* The payload of the done event is the response /api/chat returns.
SameAnswer ==
    Respond =>
        /\ response' = Answer(PlainTail, request.user_message, Len(log))
        /\ Plain(St') = PlainTail

\* What only /api/chat/stream does changes nothing of it.
StreamingOnly ==
    (PutStep \/ GenStep \/ SendComplete) =>
        /\ Plain(St') = Plain(St)
        /\ UNCHANGED << log, phase, request, response, last >>

\* C21: /api/chat/stream and /api/chat have the same semantics: for the same
\* request and the same behaviour of the agents and the LLM, every step of a
\* streaming request is, once the callbacks' events are left out, the step
\* the non-streaming request takes, so that the entries appended to the log
\* and their order are the same and the done payload carries the logDiff,
\* pending_tool_calls and completed_tool_calls of the /api/chat response.
C21_SameSemantics ==
    [][SameStart /\ SameStep /\ SameAnswer /\ StreamingOnly]_vars

\* A streaming request whose callbacks fired was answered with entries in
\* logDiff, a pending tool call and a completed one.
C21_Witness ==
    /\ stream /\ Returned /\ fired # <<>>
    /\ Len(response.logDiff) >= 3
    /\ response.pending_tool_calls # <<>>
    /\ response.completed_tool_calls # <<>>

\* ---------------------------------------------------------------- C22
\* CompressedConversationLog(log) has just been constructed.
Rebuilt == phase = "running" /\ olog = log /\ request.kind = "none"

\* The entry that gives task id its fields (unique_id indexes the tasks: a
\* later entry with the same unique_id replaces them) and the place where
\* the id entered the log.
EntryOf(l, id) ==
    l[CHOOSE i \in 1..Len(l) :
        /\ l[i].type_ = "task" /\ l[i].unique_id = id
        /\ \A j \in 1..Len(l) : (l[j].type_ = "task" /\ l[j].unique_id = id) => j <= i]

PlaceOf(l, id) ==
    CHOOSE i \in 1..Len(l) :
        /\ l[i].type_ = "task" /\ l[i].unique_id = id
        /\ \A j \in 1..Len(l) : (l[j].type_ = "task" /\ l[j].unique_id = id) => i <= j

ChildrenOf(l, T) == {k \in TaskIds(l) : EntryOf(l, k).parent_unique_id = T}

\* Where child k stands in a list of batches: <<batch, position>>.
Slots(batches, k) ==
    {<<g, n>> \in (1..Len(batches)) \X (1..MaxLen) :
        n <= Len(batches[g]) /\ batches[g][n] = k}

C22_Grouped(l, T, batches) ==
    /\ \A g \in 1..Len(batches) : batches[g] # <<>>
    /\ \A g \in 1..Len(batches) : \A n \in 1..Len(batches[g]) :
          batches[g][n] \in ChildrenOf(l, T)
    /\ \A k \in ChildrenOf(l, T) : Cardinality(Slots(batches, k)) = 1
    /\ \A a, b \in ChildrenOf(l, T) :
          \A sa \in Slots(batches, a), sb \in Slots(batches, b) :
              /\ sa[1] = sb[1] <=> EntryOf(l, a).run_id = EntryOf(l, b).run_id
              /\ (sa[1] = sb[1] /\ sa[2] < sb[2]) => PlaceOf(l, a) < PlaceOf(l, b)
              /\ (sa[1] < sb[1] /\ sa[2] = 1 /\ sb[2] = 1) => PlaceOf(l, a) < PlaceOf(l, b)

\* C22: for every log L and every task T of rebuild(L), T.child_unique_ids
\* is a list of batches in which each task of L whose parent_unique_id is T
\* appears exactly once; two children of T are in the same batch iff they
\* have the same run_id; children inside a batch are in log order; batches
\* are ordered by the log position of their first child.
C22_ChildBatches ==
    Rebuilt =>
        /\ DOMAIN tasks = TaskIds(log)
        /\ \A T \in DOMAIN tasks : C22_Grouped(log, T, tasks[T].child_unique_ids)

\* A rebuilt parent with two batches, the child of the second batch standing
\* in the log between the two children of the first.
C22_Witness ==
    /\ Rebuilt
    /\ \E T \in DOMAIN tasks :
          LET b == tasks[T].child_unique_ids
          IN /\ Len(b) = 2 /\ Len(b[1]) = 2 /\ Len(b[2]) = 1
             /\ PlaceOf(log, b[1][1]) < PlaceOf(log, b[2][1])
             /\ PlaceOf(log, b[2][1]) < PlaceOf(log, b[1][2])

\* ---------------------------------------------------------------- C23
\* A CompressedConversationLog built from log is in use.
InUse == phase = "running" /\ request.kind = "none"

\* The state rebuilt once more from the log the state holds.
Again == _rebuild_from_log(olog)

C23_Rebuilt ==
    /\ Rebuilt =>
          /\ \A i \in 1..Len(log) : olog[i] = log[i]
          /\ Len(olog) = Len(log)
          /\ get_log_diff(St) = <<>>
          /\ Again.tasks = tasks /\ Again.order = order /\ Again.log = log
    /\ InUse => olog = log \o get_log_diff(St)

C23_Appended ==
    /\ \A e \in TaskChoices(olog) :
          AddTask(e) => get_log_diff(St') = Append(get_log_diff(St), e)
    /\ \A e \in ResultChoices(olog) :
          AssignResult(e) => get_log_diff(St') = Append(get_log_diff(St), e)
    /\ \A e \in DebugChoices :
          AddDebug(e) => get_log_diff(St') = Append(get_log_diff(St), e)

Skipped(l) ==
    {i \in 1..Len(l) :
        \/ l[i].type_ = "task_debug"
        \/ /\ l[i].type_ = "task_result"
           /\ ~\E j \in 1..(i - 1) :
                  l[j].type_ = "task" /\ l[j].unique_id = l[i].task_unique_id}

\* The log without the entries at these indices.
Without(l, drop) ==
    LET keep[i \in 0..Len(l)] ==
            IF i = 0 THEN <<>>
            ELSE IF i \in drop THEN keep[i - 1] ELSE Append(keep[i - 1], l[i])
    IN keep[Len(l)]

\* Tasks whose parent_unique_id names no task of the log.
Orphans(l) ==
    {k \in TaskIds(l) : EntryOf(l, k).parent_unique_id \notin TaskIds(l) \cup {None}}

\* The result the log gives task id: that of the last task_result after the
\* entry that gives the task its fields, null when there is none.
ResultOf(l, id) ==
    LET from == CHOOSE i \in 1..Len(l) : l[i] = EntryOf(l, id) /\
                    \A j \in 1..Len(l) : (l[j].type_ = "task" /\ l[j].unique_id = id) => j <= i
        after == {i \in ResultIndices(l, id) : i > from}
    IN IF after = {} THEN NoResult
       ELSE l[CHOOSE i \in after : \A j \in after : j <= i].result

InBatches(k) ==
    \E T \in DOMAIN tasks : Slots(tasks[T].child_unique_ids, k) # {}

\* C24: rebuild(L) completes without raising for every sequence L of log
\* entries (the one lookup of the linking pass, self.tasks[batch[0]], finds
\* its task); a task_result or task_debug whose task id is not (yet) known
\* is skipped; a task whose parent_unique_id is not in the log is kept but
\* attached to no parent; each such entry is ignored individually: the
\* other entries are rebuilt as they are without it.
C24_NeverThrows ==
    Rebuilt =>
        /\ \A T \in DOMAIN tasks : \A g \in 1..Len(tasks[T].child_unique_ids) :
              /\ tasks[T].child_unique_ids[g] # <<>>
              /\ tasks[T].child_unique_ids[g][1] \in DOMAIN tasks
        /\ DOMAIN tasks = TaskIds(log)
        /\ \A k \in DOMAIN tasks :
              /\ tasks[k].result = ResultOf(log, k)
              /\ tasks[k].parent_unique_id = EntryOf(log, k).parent_unique_id
              /\ tasks[k].run_id = EntryOf(log, k).run_id
        /\ \A k \in Orphans(log) : k \in DOMAIN tasks /\ ~InBatches(k)
        /\ \A i \in Skipped(log) :
              /\ _rebuild_from_log(Without(log, {i})).tasks = tasks
              /\ _rebuild_from_log(Without(log, {i})).order = order
        /\ _rebuild_from_log(Without(log, Skipped(log))).tasks = tasks

\* A state rebuilt from a log with a task_result that comes before its task,
\* a task whose parent the log does not hold, a task_result that is applied
\* and a task_debug.
C24_Witness ==
    /\ Rebuilt
    /\ \E i \in Skipped(log) :
          log[i].type_ = "task_result" /\ log[i].task_unique_id \in TaskIds(log)
    /\ \E i \in Skipped(log) : log[i].type_ = "task_debug"
    /\ Orphans(log) # {}
    /\ \E k \in DOMAIN tasks : tasks[k].result # NoResult

\* ---------------------------------------------------------------- C25
\* The request was sent again on the same log and answered again: last holds
\* the pending_tool_calls of the answer the client dropped.
Repeated == phase = "responded" /\ last.kind = "dropped" /\ ~response.error

\* C25 as stated: two requests with the same log, completed_tool_calls,
\* user_message, agent and agent behaviour produce identical
\* pending_tool_calls: same ids, names and arguments, in the same order.
C25_Deterministic ==
    Repeated => response.pending_tool_calls = last.pending_tool_calls

\* C25 amended: they produce pending_tool_calls with the same names and
\* arguments in the same order, and with the same id wherever the pending
\* task is a task of the input log; the id of a pending task that the
\* request created with generate_unique_tool_call_id is a fresh one, which
\* differs between the two requests.
C25_UpToGeneratedIds ==
    Repeated =>
        LET a == last.pending_tool_calls
            b == response.pending_tool_calls
        IN /\ Len(a) = Len(b)
           /\ \A i \in 1..Len(a) :
                 /\ a[i].name = b[i].name
                 /\ a[i].arguments = b[i].arguments
                 /\ a[i].id \in TaskIds(log) <=> b[i].id \in TaskIds(log)
                 /\ a[i].id \in TaskIds(log) => a[i] = b[i]
                 /\ a[i].id \notin TaskIds(log) => a[i].id # b[i].id

\* A request that created two pending tasks was answered twice, and so was a
\* request that left a pending task of its log pending.
C25_Witness ==
    /\ Repeated
    /\ Len(response.pending_tool_calls) = 2
    /\ \A i \in 1..2 : response.pending_tool_calls[i].id \notin TaskIds(log)

C25_WitnessOfLog ==
    /\ Repeated
    /\ \E i \in 1..Len(response.pending_tool_calls) :
          response.pending_tool_calls[i].id \in TaskIds(log)

\* ------------------------------------------------------------------- C26
\* The records of the log diff before extract_llm_calls_from_log_diff, with
\* the entry and the place they have in it.
Places(l) ==
    UNION {{<< i, k >> : k \in 1..Len(l[i].llmDebug)} :
              i \in {i \in 1..Len(l) : l[i].type_ = "task_debug"}}

\* The record at place p of the log diff l is kept by the answer r: the log
\* diff of r has it with extra cleared, and llm_calls has its extra under
\* its call id.
Retained(l, p, r) ==
    LET d == l[p[1]].llmDebug[p[2]]
    IN /\ r.logDiff[p[1]].llmDebug[p[2]] = LLMDebug(d.lllm_call_id, None)
       /\ d.lllm_call_id \in DOMAIN r.llm_calls
       /\ r.llm_calls[d.lllm_call_id].extra = d.extra

\* C26: for every LLM debug record of the task_debug entries of a request's
\* logDiff, extract_llm_calls_from_log_diff leaves the record in the logDiff
\* with extra cleared and makes its extra available as
\* llm_calls[call id].extra: no record's extra is lost, whatever its call id.
C26_NothingLost ==
    [][phase = "running" /\ phase' = "responded" =>
          \A p \in Places(olog) : Retained(olog, p, response')]_vars

\* What holds: every record is left in the logDiff with extra cleared, and
\* the records that have a call id have their extra in llm_calls.
C26_IdentifiedRetained ==
    [][phase = "running" /\ phase' = "responded" =>
          /\ Len(response'.logDiff) = Len(olog)
          /\ \A p \in Places(olog) :
                LET d == olog[p[1]].llmDebug[p[2]]
                IN /\ response'.logDiff[p[1]].llmDebug[p[2]]
                          = LLMDebug(d.lllm_call_id, None)
                   /\ d.lllm_call_id # None => Retained(olog, p, response')]_vars

\* ------------------------------------------------------------------- C27
\* The places of a child_tasks_batch: batch and position within it.
BatchPlaces(b) == UNION {{<< g, k >> : k \in 1..Len(b[g])} : g \in 1..Len(b)}

\* The results the log records for a task.
RecordedResults(l, id) == {l[i].result : i \in ResultIndices(l, id)}

\* The pending tool call c tells the children that its task has in the log l:
\* no child_tasks_batch when there is no child; otherwise no empty batch,
\* every child at one place, with its agent, its args and a result that the
\* log records for it, and two children in the same batch exactly when they
\* have the same run_id.
TellsChildren(l, c) ==
    LET kids == ChildrenOf(l, c.id)
        b == c.child_tasks_batch
        at(p) == b[p[1]][p[2]]
    IN /\ b # <<>> <=> kids # {}
       /\ \A g \in 1..Len(b) : b[g] # <<>>
       /\ \A p \in BatchPlaces(b) :
             /\ at(p).tool_call_id \in kids
             /\ at(p).agent = EntryOf(l, at(p).tool_call_id).agent
             /\ at(p).args = EntryOf(l, at(p).tool_call_id).args
             /\ at(p).result \in RecordedResults(l, at(p).tool_call_id)
       /\ \A k \in kids : \E p \in BatchPlaces(b) : at(p).tool_call_id = k
       /\ \A p, q \in BatchPlaces(b) :
             /\ at(p).tool_call_id = at(q).tool_call_id => p = q
             /\ p[1] = q[1] <=> EntryOf(l, at(p).tool_call_id).run_id
                                   = EntryOf(l, at(q).tool_call_id).run_id

\* No entry of a log has a child_tasks_batch.
NotPersisted(l) == \A i \in 1..Len(l) : "child_tasks_batch" \notin DOMAIN l[i]

\* C27: in every chat response, a pending_tool_calls entry carries
\* child_tasks_batch exactly when the pending leaf has (completed) children;
\* the field groups all children of the leaf by run_id, each one given with
\* its tool_call_id, agent, args and recorded result, and it is never
\* written into the log.
C27_ChildTasksBatch ==
    Returned =>
        /\ \A i \in 1..Len(response.pending_tool_calls) :
              TellsChildren(ResultingLog, response.pending_tool_calls[i])
        /\ NotPersisted(ResultingLog) /\ NotPersisted(olog)

\* What holds: the same of the responses made after Orchestrator.run or
\* resume, with get_pending_tool_calls.
C27_AfterOrchestrator ==
    (Returned /\ response.path # "short") =>
        /\ \A i \in 1..Len(response.pending_tool_calls) :
              TellsChildren(ResultingLog, response.pending_tool_calls[i])
        /\ NotPersisted(ResultingLog) /\ NotPersisted(olog)

\* A log as the orchestrator writes it: one task entry for each unique_id,
\* a child after its parent and in its parent's turn, a result after its
\* task.
WellFormedLog(l) ==
    /\ \A i, j \in 1..Len(l) :
          (l[i].type_ = "task" /\ l[j].type_ = "task"
              /\ l[i].unique_id = l[j].unique_id) => i = j
    /\ \A i \in 1..Len(l) :
          (l[i].type_ = "task" /\ l[i].parent_unique_id # None) =>
              \E j \in 1..(i - 1) :
                  /\ j >= LatestRootIndex(SubSeq(l, 1, i))
                  /\ l[j].type_ = "task" /\ l[j].unique_id = l[i].parent_unique_id
    /\ \A i \in 1..Len(l) :
          l[i].type_ = "task_result" =>
              \E j \in 1..(i - 1) :
                  l[j].type_ = "task" /\ l[j].unique_id = l[i].task_unique_id

\* What holds of get_pending_tool_calls on any such log (RebuildSpec), pending
\* leaves with completed children included.
C27_FromLog ==
    WellFormedLog(log) =>
        \A i \in 1..Len(get_pending_tool_calls(log)) :
            TellsChildren(log, get_pending_tool_calls(log)[i])

C27_FromLogReached ==
    /\ WellFormedLog(log)
    /\ \E i \in 1..Len(get_pending_tool_calls(log)) :
          get_pending_tool_calls(log)[i].child_tasks_batch # << >>

\* ------------------------------------------------------------------- C28
\* A thread has been made of the child batches of the first turn's root.
Translated ==
    /\ phase = "running" /\ order # <<>>
    /\ \E c \in DOMAIN co : co[c].inst.thread_history # <<>>

\* The thread task_batch_to_thread made of them: thread_history without the
\* user message of the turn (the root has no result).
TurnThread ==
    Tail(co[CHOOSE c \in DOMAIN co : co[c].inst.thread_history # <<>>].inst.thread_history)

TurnBatches == get_children(St, TurnRoot)

HasPending(batch) == \E k \in 1..Len(batch) : batch[k].result = NoResult

\* The children of a batch that are shown, but for the agents in hidden: as
\* content (TalkToUser with a result), as tool calls (the others), and with
\* a tool message (the others that are completed).
Spoken(batch) ==
    {k \in 1..Len(batch) : batch[k].agent = "TalkToUser" /\ batch[k].result # NoResult}

Called(batch, hidden) ==
    {k \in 1..Len(batch) : batch[k].agent \notin hidden \cup {"TalkToUser"}}

Answered(batch, hidden) ==
    {k \in Called(batch, hidden) : batch[k].result # NoResult}

\* The batches that contribute: up to the first one with a pending child.
Contributing(batches) ==
    {g \in 1..Len(batches) : \A h \in 1..(g - 1) : ~HasPending(batches[h])}

\* The messages a contributing batch gives: an assistant message unless all
\* its children are hidden, and its tool messages.
SegLen(batch, hidden) ==
    (IF \A k \in 1..Len(batch) : batch[k].agent \in hidden THEN 0 ELSE 1)
        + Cardinality(Answered(batch, hidden))

RECURSIVE SegStart(_, _, _)
SegStart(batches, g, hidden) ==
    IF g = 1 THEN 1
    ELSE SegStart(batches, g - 1, hidden) + SegLen(batches[g - 1], hidden)

\* thread is the translation of batches: for each contributing batch, in
\* order, one assistant message with the content of the TalkToUser children
\* and a tool call for each other child, then one tool message for each
\* completed one of these, each answering a tool call of that assistant
\* message; nothing else.
IsThreadOf(thread, batches, hidden) ==
    LET final == CHOOSE g \in Contributing(batches) :
                     \A h \in Contributing(batches) : h <= g
    IN /\ Len(thread) = SegStart(batches, final, hidden)
                            + SegLen(batches[final], hidden) - 1
       /\ \A g \in Contributing(batches) :
             LET batch == batches[g]
                 at == SegStart(batches, g, hidden)
                 n == SegLen(batch, hidden)
                 a == thread[at]
                 calls == {a.tool_calls[i].id : i \in 1..Len(a.tool_calls)}
             IN n > 0 =>
                  /\ a.role = "assistant"
                  /\ Len(a.content) = Cardinality(Spoken(batch))
                  /\ \A i \in 1..Len(a.content) :
                        \E k \in Spoken(batch) : a.content[i].text = batch[k].result
                  /\ Len(a.tool_calls) = Cardinality(Called(batch, hidden))
                  /\ calls = {batch[k].unique_id : k \in Called(batch, hidden)}
                  /\ \A k \in Called(batch, hidden) : \E i \in 1..Len(a.tool_calls) :
                        /\ a.tool_calls[i].id = batch[k].unique_id
                        /\ a.tool_calls[i].name = batch[k].agent
                  /\ \A j \in 1..(n - 1) :
                        /\ thread[at + j].role = "tool"
                        /\ thread[at + j].tool_call_id \in calls
                        /\ \E k \in Answered(batch, hidden) :
                              /\ thread[at + j].tool_call_id = batch[k].unique_id
                              /\ thread[at + j].content = << TextBlock(batch[k].result) >>
                  /\ \A k \in Answered(batch, hidden) : \E j \in 1..(n - 1) :
                        thread[at + j].tool_call_id = batch[k].unique_id

\* C28: task_batch_to_thread emits, for each non-empty batch in order, one
\* assistant message (content merged from the TalkToUser children,
\* tool_calls for the other children) followed by one tool message per
\* completed non-TalkToUser child, and stops after the first batch that
\* contains a pending child: that batch's pending children appear as
\* tool_calls with no tool message, every tool message's tool_call_id
\* occurs in the tool_calls of the assistant message preceding it, and no
\* later batch contributes any message.
C28_Thread ==
    (Translated /\ TurnBatches # <<>>) => IsThreadOf(TurnThread, TurnBatches, {})

\* C28 amended: the same of the children that are no web_search task.  A
\* web_search child has no tool call and no tool message, a batch of
\* web_search children only has no assistant message, and a pending
\* web_search child stops the translation like any pending child.
C28_ButWebSearch ==
    (Translated /\ TurnBatches # <<>>) =>
        IsThreadOf(TurnThread, TurnBatches, {"web_search"})

\* Two batches were translated, the first with a completed tool, a pending
\* tool and no web_search; the second contributes nothing.
C28_Witness ==
    /\ Translated /\ Len(TurnBatches) = 2
    /\ Len(TurnBatches[1]) = 2
    /\ \A k \in 1..2 : TurnBatches[1][k].agent = "ExecuteSQLQuery"
    /\ TurnBatches[1][1].result = NoResult /\ TurnBatches[1][2].result # NoResult
    /\ Len(TurnThread) = 2
    /\ TurnThread[2].tool_call_id = TurnBatches[1][2].unique_id

\* ------------------------------------------------------------------- C29
\* Analyst c has dispatched the tool calls of its last LLM response, all with
\* arguments that are a JSON object, and has reduced the batch of their
\* tasks into tool_thread.
RoundTrip(c) ==
    /\ co[c].entry = "analyst_llm"
    /\ co[c].inst.response.tool_calls # <<>>
    /\ \A k \in 1..Len(co[c].inst.response.tool_calls) :
          co[c].inst.response.tool_calls[k].arguments.json

\* The assistant message of that batch: the last one of tool_thread.
LastAssistant(thread) ==
    thread[CHOOSE i \in 1..Len(thread) :
              /\ thread[i].role = "assistant"
              /\ \A j \in 1..Len(thread) : thread[j].role = "assistant" => j <= i]

\* The tool calls of message a are the tool calls of response r, each with
\* its id, its function name and arguments that parse to the object of the
\* original without the keys in dropped.
SameToolCalls(a, r, dropped) ==
    /\ Len(a.tool_calls) = Len(r.tool_calls)
    /\ \A k \in 1..Len(r.tool_calls) : \E j \in 1..Len(a.tool_calls) :
          /\ a.tool_calls[j].id = r.tool_calls[k].id
          /\ a.tool_calls[j].name = r.tool_calls[k].name
          /\ a.tool_calls[j].arguments.json
          /\ a.tool_calls[j].arguments.params = r.tool_calls[k].arguments.params \ dropped

\* C29: for tool calls with well-formed JSON-object arguments, converting
\* them with tool_calls_to_agent_calls, dispatching them as tasks with
\* Orchestrator.run and converting the resulting batch back with the thread
\* translator yields an assistant message whose tool_calls have the same
\* ids, the same function names and arguments that parse to the same JSON
\* object as the original tool calls.
C29_RoundTrip ==
    \A c \in DOMAIN co :
        RoundTrip(c) =>
            SameToolCalls(LastAssistant(co[c].inst.tool_thread), co[c].inst.response, {})

\* C29 amended: the same ids and function names, and arguments that parse
\* to the JSON object of the original without its keys that start with an
\* underscore.
C29_ButPrivateKeys ==
    \A c \in DOMAIN co :
        RoundTrip(c) =>
            SameToolCalls(LastAssistant(co[c].inst.tool_thread), co[c].inst.response,
                          PrivateKeys)

\* A tool call with content has made the round trip, and so has one with an
\* underscore key.
C29_Witness ==
    \E c \in DOMAIN co :
        /\ RoundTrip(c) /\ co[c].inst.response.content
        /\ Len(LastAssistant(co[c].inst.tool_thread).tool_calls) = 1
        /\ LastAssistant(co[c].inst.tool_thread).content # <<>>

C29_WitnessPrivate ==
    \E c \in DOMAIN co :
        /\ RoundTrip(c)
        /\ "_note" \in co[c].inst.response.tool_calls[1].arguments.params

\* What holds of every assistant message of a tool_thread, also of the one
\* made in a later request from tasks whose tools waited for the client:
\* its tool calls are the tasks with these ids, names and arguments.
C29_FromTasks ==
    \A c \in DOMAIN co : \A i \in 1..Len(co[c].inst.tool_thread) :
        LET m == co[c].inst.tool_thread[i]
        IN \A j \in 1..Len(m.tool_calls) :
              /\ m.tool_calls[j].id \in DOMAIN tasks
              /\ tasks[m.tool_calls[j].id].agent = m.tool_calls[j].name
              /\ m.tool_calls[j].arguments
                    = Json(tasks[m.tool_calls[j].id].args.params \ PrivateKeys)

\* ------------------------------------------------------------------- C30
\* The analysts of the request and the LLM answers each one has had: one
\* for each iteration of the loop of AnalystAgent.run.
Analysts == {c \in DOMAIN co : c \in DOMAIN tasks /\ tasks[c].agent = "AnalystAgent"}

\* The iterations analyst c has started: the ones whose allm_request has
\* returned and the one that waits for its answer.
Iterations(c) ==
    co[c].inst.llm_calls
        + (IF co[c].entry = "analyst_llm" /\ co[c].pc \in {"llm", "ready"} THEN 1 ELSE 0)

\* C30: for every sequence of LLM responses, AnalystAgent.run within one
\* request performs at most MAX_STEPS_LOWER_LEVEL loop iterations and then
\* has returned on finish_reason "stop", has suspended through a dispatched
\* batch, or returns "Maximum iterations (...) reached": it never calls the
\* LLM indefinitely.
C30_HardCap ==
    \A c \in Analysts : Iterations(c) <= MAX_STEPS_LOWER_LEVEL

\* What holds: the loop asks the LLM only while tool_thread has fewer than
\* MAX_STEPS_LOWER_LEVEL messages, and tool_thread has at most one message
\* for each answer of the LLM with content: an answer without content and
\* without tool calls adds none.
C30_ThreadCap ==
    \A c \in Analysts :
        /\ co[c].pc = "llm" => Len(co[c].inst.tool_thread) < MAX_STEPS_LOWER_LEVEL
        /\ Len(co[c].inst.tool_thread) <= co[c].inst.llm_calls
        /\ Len(co[c].inst.tool_thread) < Len(order)

\* More answers than MAX_STEPS_LOWER_LEVEL, some of them with content.
C30_Unbounded ==
    \E c \in Analysts :
        /\ co[c].inst.llm_calls > MAX_STEPS_LOWER_LEVEL
        /\ co[c].inst.tool_thread # <<>>

\* ------------------------------------------------------------------- C31
\* The deltas received for tool call i, in receipt order.
DeltasOf(i) == SelectSeq(emitted, LAMBDA d : d.index = i)

\* The last one of these values that is not `none`, else `none`.
LastGiven(values, none) ==
    LET given == {k \in 1..Len(values) : values[k] # none}
    IN IF given = {} THEN none
       ELSE values[CHOOSE k \in given : \A j \in given : j <= k]

RECURSIVE Concatenation(_)
Concatenation(fragments) ==
    IF fragments = <<>> THEN <<>>
    ELSE Head(fragments) \o Concatenation(Tail(fragments))

\* The entries a stream with these deltas has: one for each index up to the
\* highest one received.
Indices == 0..((CHOOSE m \in {-1} \cup {emitted[k].index : k \in 1..Len(emitted)} :
                   \A k \in 1..Len(emitted) : emitted[k].index <= m))

\* The places of the accumulated entries that have an id of the client side.
HandedOn(acc) == {i \in 1..Len(acc) : acc[i].id # NoId /\ ~startswith(acc[i].id, ServerPrefix)}

\* C31: the LLM bridge assembles tool calls by index: the entry at index i
\* has the last non-empty id delta received for i, the last non-empty name
\* delta for i and the concatenation, in receipt order, of the argument
\* fragments for i, however the deltas of different indices interleave;
\* entries whose id starts with "srvtoolu_" are not among the returned
\* tool_calls, and the other entries that have an id are, in their order.
C31_AssembledByIndex ==
    phase \in {"running", "responded"} /\ request.kind = "llm" =>
        LET acc == request.accumulated_tool_calls
        IN /\ DOMAIN acc = {i + 1 : i \in Indices}
           /\ \A i \in Indices :
                 LET ds == DeltasOf(i)
                 IN /\ acc[i + 1].id = LastGiven([k \in 1..Len(ds) |-> ds[k].id], NoId)
                    /\ acc[i + 1].function.name
                          = LastGiven([k \in 1..Len(ds) |-> ds[k].name], NoName)
                    /\ acc[i + 1].function.arguments
                          = Concatenation([k \in 1..Len(ds) |-> ds[k].arguments])
           /\ phase = "responded" =>
                 /\ \A k \in 1..Len(response.tool_calls) :
                       ~startswith(response.tool_calls[k].id, ServerPrefix)
                 /\ Len(response.tool_calls) = Cardinality(HandedOn(acc))
                 /\ \A i \in HandedOn(acc) :
                       response.tool_calls[Cardinality({j \in HandedOn(acc) : j <= i})]
                          = acc[i]

\* A stream whose deltas for the two calls interleave, with arguments in two
\* fragments and a server-side call, has been assembled.
C31_Witness ==
    /\ phase = "responded" /\ request.kind = "llm"
    /\ Len(request.accumulated_tool_calls) = 2
    /\ \E a, b, c \in 1..Len(emitted) :
          /\ a < b /\ b < c
          /\ emitted[a].index = 0 /\ emitted[b].index = 1 /\ emitted[c].index = 0
    /\ Len(request.accumulated_tool_calls[1].function.arguments) = 2
    /\ startswith(request.accumulated_tool_calls[2].id, ServerPrefix)
    /\ Len(response.tool_calls) = 1

\* ------------------------------------------------------------------- C32
\* The registered subclasses of Tool other than TalkToUser.
ClientSideTools ==
    {"UserInputTool", "UserInputToolBackend", "SimpleTool", "ExecuteSQLQuery",
     "Navigate", "UpdateFileMetadata"}

\* The tasks of such tools whose run() was called.
ToolRuns == {t \in Executed : tasks[t].agent \in ClientSideTools}

\* run() raised UserInputException with the id of its task, no result is
\* recorded, and the response hands the task to the client.
LeftToClient(t) ==
    /\ tasks[t].result = NoResult
    /\ ~HasResult(olog, t)
    /\ co[t].pc = "done" /\ co[t].outcome = "user" /\ co[t].ids = <<t>>
    /\ Returned => t \in ToolCallIds(response.pending_tool_calls)

\* The arguments that the validation in run() turns down.
TurnedDown(t) ==
    \/ /\ tasks[t].agent = "Navigate"
       /\ \/ tasks[t].args.params \cap {"file_id", BadFileId, "path", "newFileType"} = {}
          \/ BadFileId \in tasks[t].args.params
    \/ /\ tasks[t].agent = "UpdateFileMetadata"
       /\ tasks[t].args.params \cap {"name", "description", "path"} = {}

C32_WitnessPassed ==
    /\ Returned
    /\ \E t \in ToolRuns : tasks[t].agent = "UpdateFileMetadata" /\ LeftToClient(t)

\* ------------------------------------------------------------------- C33
\* No task was interrupted: chat/close was not called and no turn was
\* started over a pending one.
NeverInterrupted ==
    /\ \A i \in 1..Len(log) :
          log[i].type_ = "task_result" => log[i].result # Interrupted
    /\ \A i \in 1..Len(response.logDiff) :
          response.logDiff[i].type_ = "task_result"
             => response.logDiff[i].result # Interrupted

\* The agents whose run() the server executes itself.
ServerSideAgents == {"AnalystAgent", "ReportAgent", "MultiToolAgent"}

\* The response hands the client pending tool calls, all of them tasks of
\* server-side agents: there is nothing the client can complete.
OnlyAgentsPending ==
    /\ response.pending_tool_calls # <<>>
    /\ \A i \in 1..Len(response.pending_tool_calls) :
          response.pending_tool_calls[i].name \in ServerSideAgents

\* C33: turn progress: while the client sends no user_message and supplies,
\* in any grouping across requests, a completion for every client-side tool
\* it was handed, the turn goes on to a response without pending tool calls
\* and a result of the root; the protocol never reaches a state in which
\* the only pending leaves are server-side agent tasks that the server will
\* not resume.
C33_TurnProgress ==
    Returned /\ ~request.user_message /\ NeverInterrupted => ~OnlyAgentsPending

\* The tasks of server-side agents among the pending leaves the HTTP layer
\* finds in log l.
AgentLeaves(l) ==
    LET leaves == get_pending_leaf_tasks(l)
    IN {leaves[i].unique_id :
          i \in {i \in 1..Len(leaves) : leaves[i].agent \in ServerSideAgents}}

ClientToolIds(l) ==
    {l[i].unique_id :
       i \in {i \in 1..Len(l) : l[i].type_ = "task" /\ l[i].agent \in ClientSideTools}}

\* The client holds a log one of whose pending leaves is a task of a
\* server-side agent.
C33_Stuck == phase = "idle" /\ AgentLeaves(log) # {}

\* What holds of such a log: whatever completions of client-side tools a
\* request without user_message carries, it is answered before the
\* orchestrator is built, with the agent's task among the pending tool calls.
C33_NotResumed ==
    C33_Stuck =>
       \A ids \in SUBSET ClientToolIds(log) :
          \E o \in {process_conversation(FALSE, log, nextId, FALSE, ids, NoRoot)} :
             /\ o.phase = "responded" /\ o.response.path = "short"
             /\ \E i \in 1..Len(o.response.pending_tool_calls) :
                   o.response.pending_tool_calls[i].id \in AgentLeaves(log)

\* ------------------------------------------------------------------- C34
\* The root above task t in log l.
RECURSIVE RootAbove(_, _)
RootAbove(l, t) ==
    IF EntryOf(l, t).parent_unique_id = None THEN t
    ELSE RootAbove(l, EntryOf(l, t).parent_unique_id)

\* The task an entry of the log is about.
TaskOfEntry(e) == IF e.type_ = "task" THEN e.unique_id ELSE e.task_unique_id

\* The entries a request appended after the latest root entry.
AfterLatestRoot ==
    {i \in (Len(log) + 1)..Len(olog) : i > LatestRootIndex(olog)}

\* C34: earlier turns are frozen: once a request with user_message has
\* created a new root, no request instantiates, reduces or runs the earlier
\* root or a task of its subtree, and no task, task_result or task_debug
\* entry about such a task is appended afterwards; resume() executes only
\* tasks that descend from the latest root.
C34_EarlierTurnsFrozen ==
    InRequest =>
        /\ \A t \in Executed : RootAbove(olog, t) = LatestRootId(olog)
        /\ \A i \in AfterLatestRoot :
              RootAbove(olog, TaskOfEntry(olog[i])) = LatestRootId(olog)

\* The roots of log l that a later root follows.
EarlierRoots(l) ==
    {l[i].unique_id : i \in {i \in 1..Len(l) :
        l[i].type_ = "task" /\ l[i].parent_unique_id = None /\ i < LatestRootIndex(l)}}

\* Every turn had ended when the next one began: each task of an earlier
\* root had a result other than None.
TurnsEnded ==
    \A t \in TaskIds(olog) :
        RootAbove(olog, t) \in EarlierRoots(olog) =>
            \E i \in 1..Len(log) :
                /\ log[i].type_ = "task_result" /\ log[i].task_unique_id = t
                /\ log[i].result # NoResult

\* Restricted to turns that end before the next begins, nothing of an
\* earlier turn is touched.
C34_FrozenWhenEnded ==
    (InRequest /\ TurnsEnded) =>
        /\ \A t \in Executed : RootAbove(olog, t) = LatestRootId(olog)
        /\ \A i \in AfterLatestRoot :
              RootAbove(olog, TaskOfEntry(olog[i])) = LatestRootId(olog)

\* A second turn after a completed first one, resumed over a tool.
C34_SecondTurnResumed ==
    /\ InRequest /\ TurnsEnded /\ ~request.user_message
    /\ Executed # {} /\ EarlierRoots(olog) # {}

\* ------------------------------------------------------------------- C35
\* The pending leaves the HTTP layer computes from log l.
HttpLeaves(l) == Ids(get_pending_leaf_tasks(l))

\* The pending leaves the orchestrator computes from the state it rebuilds
\* from log l.
OrchestratorLeaves(l) ==
    LET leaves == _get_leaf_pending_tasks(Orchestrator(l, nextId))
    IN {leaves[i] : i \in 1..Len(leaves)}

\* C35: the two pending-leaf computations agree: for every log reachable
\* through the chat endpoints, the pending leaves the HTTP layer computes
\* from the log, scanning from the latest root on, are the pending leaves
\* the orchestrator computes from the rebuilt compressed state, over all
\* tasks.
C35_LeavesAgree == HttpLeaves(log) = OrchestratorLeaves(log)

\* Every task of a root that a later root follows has a result recorded in
\* log l, and no recorded result is None.
EarlierTurnsClosed(l) ==
    /\ \A t \in TaskIds(l) :
          RootAbove(l, t) \in EarlierRoots(l) => HasResult(l, t)
    /\ \A i \in 1..Len(l) : l[i].type_ = "task_result" => l[i].result # NoResult

\* On such logs the two computations agree.
C35_AgreeWhenClosed ==
    EarlierTurnsClosed(log) => HttpLeaves(log) = OrchestratorLeaves(log)

\* Such a log with two turns and a pending leaf in the second.
C35_TwoTurnsPending ==
    /\ EarlierTurnsClosed(log) /\ EarlierRoots(log) # {}
    /\ HttpLeaves(log) # {}

\* ------------------------------------------------------------------- C36
\* The request has an orchestrator: it was not answered before one was built.
HasOrchestrator ==
    InRequest /\ (phase = "responded" => response.path # "short")

ResultsBefore(l, t, n) ==
    {j \in 1..(n - 1) : l[j].type_ = "task_result" /\ l[j].task_unique_id = t}

\* The children of task t entered among the first n entries of log l.
ChildrenBefore(l, t, n) ==
    {l[j].unique_id : j \in {j \in 1..(n - 1) :
        l[j].type_ = "task" /\ l[j].parent_unique_id = t}}

\* Entry i of log l is a task_result of a task one of whose children, entered
\* before it, has no task_result before it.
CompletedOverPending(l, i) ==
    /\ l[i].type_ = "task_result"
    /\ \E c \in ChildrenBefore(l, l[i].task_unique_id, i) : ResultsBefore(l, c, i) = {}

\* C37: in every log the chat endpoints produce, a task_result entry of a
\* task comes after its task entry and only when every one of its children
\* already has a task_result entry: no log records a task as completed while
\* one of its children has no task_result.
C37_ChildrenFirst ==
    \A i \in 1..Len(olog) :
        olog[i].type_ = "task_result" =>
            /\ \E j \in 1..(i - 1) :
                  olog[j].type_ = "task" /\ olog[j].unique_id = olog[i].task_unique_id
            /\ ~CompletedOverPending(olog, i)


\* The tasks of log l made from a tool call whose arguments were not JSON.
ErrorTasks(l) ==
    {l[j].unique_id : j \in {j \in 1..Len(l) :
        l[j].type_ = "task" /\ "_original_args" \in l[j].args.params}}

\* Every task_result comes after the entry of its task; and children come
\* first, tasks made from calls with an error and the results of a
\* ReportAgent, which returns when the gathering of its analysts raises, apart.
C37_ButErrorTasks ==
    \A i \in 1..Len(olog) :
        olog[i].type_ = "task_result" =>
            /\ \E j \in 1..(i - 1) :
                  olog[j].type_ = "task" /\ olog[j].unique_id = olog[i].task_unique_id
            /\ EntryOf(olog, olog[i].task_unique_id).agent # "ReportAgent" =>
                  \A c \in ChildrenBefore(olog, olog[i].task_unique_id, i)
                            \ ErrorTasks(olog) :
                      ResultsBefore(olog, c, i) # {}

\* A parent's result after the results of its two children.
C37_ChildrenFirstReached ==
    \E i \in 1..Len(olog) :
        /\ olog[i].type_ = "task_result"
        /\ Cardinality(ChildrenBefore(olog, olog[i].task_unique_id, i)) = 2
        /\ ~CompletedOverPending(olog, i)

\* ------------------------------------------------------------------- C38
\* The places of the task entries of log l with unique_id id.
TaskEntriesWith(l, id) == {i \in 1..Len(l) : l[i].type_ = "task" /\ l[i].unique_id = id}

\* C38: task ids are unique: in a log produced by any sequence of requests
\* all task entries have pairwise distinct unique_id values, ids taken over
\* from tool-call ids of the LLM included: run never adds a task whose
\* unique_id the compressed state already has.
C38_UniqueIds ==
    \A id \in TaskIds(olog) : Cardinality(TaskEntriesWith(olog, id)) = 1

\* The ids Orchestrator.run makes itself are ids of no other task entry.
C38_UniqueWhenMade ==
    \A id \in TaskIds(olog) \ {ProviderId} : Cardinality(TaskEntriesWith(olog, id)) = 1

\* A log with a task whose id the provider gave and tasks whose ids run made.
C38_MadeReached ==
    /\ ProviderId \in TaskIds(olog)
    /\ Cardinality(TaskIds(olog)) >= 3

\* ------------------------------------------------------------------- C39
\* The logDiff chat/close returns on log l, and l with it appended.
CloseDiff(l) ==
    LET u == update_log_with_completed_tool_calls(l, <<>>, TRUE)
    IN SubSeq(u.log, Len(l) + 1, Len(u.log))

AfterClose(l) == l \o CloseDiff(l)

\* C39: chat/close is idempotent: for every log L, calling chat/close on L,
\* appending the returned logDiff and calling chat/close again returns an
\* empty logDiff; after a close the latest root's turn has no pending leaf
\* and a following request without user_message reports no pending tool
\* calls.
C39_CloseIdempotent ==
    phase = "idle" =>
        /\ CloseDiff(AfterClose(log)) = <<>>
        /\ HttpLeaves(AfterClose(log)) = {}
        /\ process_conversation(FALSE, AfterClose(log), nextId, FALSE, {}, NoRoot)
              .response.pending_tool_calls = <<>>

\* What a close does: every pending leaf of the log gets one task_result,
\* '<Interrupted />', and is a pending leaf no more; the pending leaves
\* left are parents of interrupted tasks.
C39_LeavesInterrupted ==
    phase = "idle" =>
        /\ HttpLeaves(AfterClose(log)) \cap HttpLeaves(log) = {}
        /\ {CloseDiff(log)[i].task_unique_id : i \in 1..Len(CloseDiff(log))}
              = HttpLeaves(log)
        /\ \A i \in 1..Len(CloseDiff(log)) :
              /\ CloseDiff(log)[i].type_ = "task_result"
              /\ CloseDiff(log)[i].result = Interrupted
        /\ \A t \in HttpLeaves(AfterClose(log)) :
              \E c \in HttpLeaves(log) : EntryOf(log, c).parent_unique_id = t

\* A log with two pending leaves under a root that is closed.
C39_ClosedReached ==
    /\ phase = "idle" /\ Cardinality(HttpLeaves(log)) = 2
    /\ Cardinality(HttpLeaves(AfterClose(log))) = 1

\* ------------------------------------------------------------------- C40
\* The root task entries of log l, in the order of the log.
RootEntries(l) == SelectSeq(l, LAMBDA e : e.type_ = "task" /\ e.parent_unique_id = None)

\* Following previous_unique_id from id cur through the roots of log l, for
\* at most fuel steps: the ids visited and how the walk ended.
RECURSIVE WalkChain(_, _, _)
WalkChain(l, cur, fuel) ==
    IF cur = None THEN [out |-> <<>>, end |-> "null"]
    ELSE IF cur \notin TaskIds(l) THEN [out |-> <<>>, end |-> "unknown id"]
    ELSE IF fuel = 0 THEN [out |-> <<>>, end |-> "none"]
    ELSE LET w == WalkChain(l, EntryOf(l, cur).previous_unique_id, fuel - 1)
         IN [out |-> << cur >> \o w.out, end |-> w.end]

====
